---- MODULE Spec2Model ----
(***************************************************************************)
(* Batch orchestrator of bespokelabs/curator:                              *)
(*   src/src/bespokelabs/curator/request_processor/                        *)
(*       openai_batch_request_processor.py                                 *)
(* BatchStatusTracker, BatchManager.submit_batches_from_request_files and   *)
(* BatchManager.poll_and_process_batches, run repeatedly on one working     *)
(* directory against a provider whose batches advance on their own.         *)
(***************************************************************************)
EXTENDS Integers, Sequences, FiniteSets, TLC

(* ------------------------------ bounds -------------------------------- *)

\* Runs of the manager on the working directory (run, stop, restart).
MaxRuns == 2

\* Request lines of every request file.
NReq == 1

\* Invocations of cancel on the working directory.
MaxCancels == 1

\* The polling loop starts no further cycle once n_finished_requests has
\* reached this value (the counter is unbounded in the code).
MaxFinished == 2

\* The permits of the semaphore of a manager whose download tasks are
\* followed from one suspension to the next: as many as it has request files,
\* so that as many batches as permits may finish in one poll cycle
\* (MAX_CONCURRENT_BATCH_OPERATIONS permits and batches in the code).
Permits == 2

\* Largest number of lines of the request file of a batch whose download is
\* followed line by line.
MaxLines == 3

\* Runs of the manager on a working directory that is used with several
\* credentials in turn.
MaxKeyRuns == 3

\* The request files a working directory may hold; a file of the working
\* directory is named <prefix>_<suffix>.
RequestFiles == {<<"requests", "0.jsonl">>, <<"requests", "1.jsonl">>}

(* ------------------------- provider-side batches ----------------------- *)

\* A provider batch ID: issued at creation, unique per create-batch call; at
\* most one create-batch call is made per request file and run.
BatchIds ==
  RequestFiles \X (1..(IF MaxKeyRuns > MaxRuns THEN MaxKeyRuns ELSE MaxRuns))

\* metadata["request_file_name"] of the batch with this ID.
request_file_name(id) == id[1]

finished_statuses == {"completed", "failed", "expired", "cancelled"}

in_progress_statuses == {"validating", "finalizing", "cancelling", "in_progress"}

\* A status the provider may report that is in neither list of lines 814-815.
unknown_status == "paused"

\* A batch that does not exist at the provider.
NoBatch ==
  [status |-> "none", total |-> 0, completed |-> 0, failed |-> 0,
   output_file_id |-> FALSE, error_file_id |-> FALSE, errors |-> FALSE]

\* The descriptor the provider answers a create-batch call with.
NewBatch == [NoBatch EXCEPT !.status = "validating"]

\* What the provider may do next with a batch in state s.
ProviderStep(s) ==
  CASE s.status = "validating" ->
         {[s EXCEPT !.status = "in_progress", !.total = NReq],
          [s EXCEPT !.status = "cancelled"]}
         \cup {[s EXCEPT !.status = "failed", !.errors = e] : e \in BOOLEAN}
    [] s.status = "in_progress" ->
         (IF s.completed + s.failed < s.total
            THEN {[s EXCEPT !.completed = @ + 1], [s EXCEPT !.failed = @ + 1]}
            ELSE {[s EXCEPT !.status = "completed",
                            !.output_file_id = (s.completed > 0),
                            !.error_file_id = (s.failed > 0)]})
         \cup {[s EXCEPT !.status = "expired"],
               [s EXCEPT !.status = "cancelled"],
               [s EXCEPT !.status = "failed", !.error_file_id = TRUE],
               [s EXCEPT !.status = unknown_status]}
    [] s.status = "cancelling" -> {[s EXCEPT !.status = "cancelled"]}
    [] s.status = unknown_status ->
         {[s EXCEPT !.status = "in_progress"], [s EXCEPT !.status = "expired"]}
    [] OTHER -> {}

RECURSIVE ProviderReach(_, _)
\* The states a batch may have reached from one of S after at most k steps.
ProviderReach(S, k) ==
  IF k = 0 THEN S
  ELSE ProviderReach(S \cup UNION {ProviderStep(s) : s \in S}, k - 1)

\* What a retrieve call may answer for a batch last seen in state s.
Retrieved(s) == ProviderReach({s}, NReq + 2)

\* The Batch object of the client library.
BatchObject(id, s) ==
  [id |-> id, status |-> s.status, total |-> s.total,
   completed |-> s.completed, failed |-> s.failed,
   output_file_id |-> s.output_file_id, error_file_id |-> s.error_file_id,
   errors |-> s.errors]

(* --------------------------- BatchStatusTracker ------------------------ *)

BatchStatusTracker ==
  [n_total_batches |-> 0,
   unsubmitted_request_files |-> {},
   submitted_batch_ids |-> {},
   finished_batch_ids |-> {},
   downloaded_batch_ids |-> {},
   n_total_requests |-> 0,
   n_finished_requests |-> 0,
   n_downloaded_requests |-> 0]

\* Faulty variant: the request file is not removed from unsubmitted_request_files.
mark_as_submitted_KeepsFile(t, request_file, batch_object) ==
  [t EXCEPT !.submitted_batch_ids = @ \cup {batch_object.id},
            !.n_total_batches = @ + 1,
            !.n_total_requests = @ + batch_object.total]

mark_as_submitted(t, request_file, batch_object) ==
  [t EXCEPT !.unsubmitted_request_files = @ \ {request_file},
            !.submitted_batch_ids = @ \cup {batch_object.id},
            !.n_total_batches = @ + 1,
            !.n_total_requests = @ + batch_object.total]

\* Faulty variant: the batch is counted whether or not it is submitted.
mark_as_finished_Unguarded(t, batch_object) ==
  [t EXCEPT !.submitted_batch_ids = @ \ {batch_object.id},
            !.finished_batch_ids = @ \cup {batch_object.id},
            !.n_finished_requests =
                @ + batch_object.completed + batch_object.failed]

\* Faulty variant: the batch is moved to downloaded_batch_ids at once.
mark_as_finished_IntoDownloaded(t, batch_object) ==
  IF batch_object.id \in t.submitted_batch_ids
    THEN [t EXCEPT !.submitted_batch_ids = @ \ {batch_object.id},
                   !.downloaded_batch_ids = @ \cup {batch_object.id},
                   !.n_finished_requests =
                       @ + batch_object.completed + batch_object.failed]
    ELSE t

mark_as_finished(t, batch_object) ==
  IF batch_object.id \in t.submitted_batch_ids
    THEN [t EXCEPT !.submitted_batch_ids = @ \ {batch_object.id},
                   !.finished_batch_ids = @ \cup {batch_object.id},
                   !.n_finished_requests =
                       @ + batch_object.completed + batch_object.failed]
    ELSE t

\* Faulty variant: the two counters are updated with the signs exchanged.
mark_as_downloaded_SignsExchanged(t, batch_object) ==
  IF batch_object.id \in t.finished_batch_ids
    THEN [t EXCEPT !.finished_batch_ids = @ \ {batch_object.id},
                   !.downloaded_batch_ids = @ \cup {batch_object.id},
                   !.n_downloaded_requests =
                       @ - (batch_object.completed + batch_object.failed),
                   !.n_finished_requests =
                       @ + batch_object.completed + batch_object.failed]
    ELSE t

mark_as_downloaded(t, batch_object) ==
  IF batch_object.id \in t.finished_batch_ids
    THEN [t EXCEPT !.finished_batch_ids = @ \ {batch_object.id},
                   !.downloaded_batch_ids = @ \cup {batch_object.id},
                   !.n_downloaded_requests =
                       @ + batch_object.completed + batch_object.failed,
                   !.n_finished_requests =
                       @ - (batch_object.completed + batch_object.failed)]
    ELSE t

request_file_to_response_file(request_file) == <<"responses", request_file[2]>>

(* ------------------------------ file paths ----------------------------- *)

\* Longest suffix of the name of a request file whose path is converted
\* character by character.
MaxSuffix == 3

\* First position of the character sep in s, 0 if there is none.
find(s, sep) ==
  IF \E i \in 1..Len(s) : s[i] = sep
    THEN CHOOSE i \in 1..Len(s) : s[i] = sep /\ \A j \in 1..(i - 1) : s[j] # sep
    ELSE 0

RECURSIVE split(_, _, _)
\* str.split(sep, maxsplit) of Python, maxsplit = -1 for no limit.
split(s, sep, maxsplit) ==
  IF maxsplit = 0 \/ find(s, sep) = 0 THEN <<s>>
  ELSE <<SubSeq(s, 1, find(s, sep) - 1)>>
         \o split(SubSeq(s, find(s, sep) + 1, Len(s)), sep, maxsplit - 1)

\* What an index beyond the end of a list raises.
IndexError == <<"IndexError">>

\* Faulty variant: the suffix is what follows the last underscore.
request_file_to_response_file_path_LastUnderscore(request_file, working_dir) ==
  LET basename == split(request_file, "/", -1)[Len(split(request_file, "/", -1))]
      parts == split(basename, "_", -1)
  IN IF Len(parts) < 2 THEN IndexError
     ELSE working_dir \o <<"/", "r", "e", "s", "p", "o", "n", "s", "e", "s", "_">>
            \o parts[Len(parts)]

\* request_file_to_response_file (lines 419-431) on paths, character by
\* character: request_file.split("/")[-1].split("_", 1)[1] after
\* "<working_dir>/responses_".
request_file_to_response_file_path(request_file, working_dir) ==
  LET basename == split(request_file, "/", -1)[Len(split(request_file, "/", -1))]
      parts == split(basename, "_", 1)
  IN IF Len(parts) < 2 THEN IndexError
     ELSE working_dir \o <<"/", "r", "e", "s", "p", "o", "n", "s", "e", "s", "_">>
            \o parts[2]

\* response_file_to_request_file (lines 434-446) on paths.
response_file_to_request_file_path(response_file, working_dir) ==
  LET basename == split(response_file, "/", -1)[Len(split(response_file, "/", -1))]
      parts == split(basename, "_", 1)
  IN IF Len(parts) < 2 THEN IndexError
     ELSE working_dir \o <<"/", "r", "e", "q", "u", "e", "s", "t", "s", "_">>
            \o parts[2]

\* The working directories: a plain name, one with an underscore, a nested one.
WorkingDirs == {<<"w">>, <<"w", "_", "d">>, <<"a", "/", "b", "_">>}

\* The characters of the suffix of a file name.
SuffixChars == {"0", "_", "."}

\* The suffixes of up to MaxSuffix characters.
Suffixes == UNION {[1..n -> SuffixChars] : n \in 0..MaxSuffix}

\* The path of the request file requests_<suffix> of the working directory.
RequestFilePath(working_dir, suffix) ==
  working_dir \o <<"/", "r", "e", "q", "u", "e", "s", "t", "s", "_">> \o suffix

\* No path is being converted.
NoPaths ==
  [working_dir |-> <<>>, suffix |-> <<<<>>, <<>>>>,
   request_file |-> <<<<>>, <<>>>>, response_file |-> <<<<>>, <<>>>>,
   round_trip |-> <<<<>>, <<>>>>]

(* --------------------------- batch file limits ------------------------- *)

MAX_REQUESTS_PER_BATCH == 50000

MAX_CONCURRENT_BATCH_OPERATIONS == 100

MAX_BYTES_PER_BATCH == 200 * 1024 * 1024

\* len("\n".join(api_specific_requests).encode()) of n requests that are
\* empty JSON objects: no batch file of n requests is smaller.
MinFileContentSize(n) == IF n = 0 THEN 0 ELSE 2 * n + (n - 1)

\* Faulty variant: the limits are tested with >= instead of >.
create_batch_file_LimitsExcluded(api_specific_requests) ==
  IF api_specific_requests.n_requests >= MAX_REQUESTS_PER_BATCH
    THEN "ValueError"
    ELSE IF api_specific_requests.file_content_size >= MAX_BYTES_PER_BATCH
           THEN "ValueError"
           ELSE "file_content"

\* create_batch_file on the requests of one request file, given by their
\* number and the size of their joined encoding.
create_batch_file(api_specific_requests) ==
  IF api_specific_requests.n_requests > MAX_REQUESTS_PER_BATCH
    THEN "ValueError"
    ELSE IF api_specific_requests.file_content_size > MAX_BYTES_PER_BATCH
           THEN "ValueError"
           ELSE "file_content"

(* ----------------------------- credentials ----------------------------- *)

\* The values of client.api_key[-4:] the working directory is used with; the
\* journals of lines 491-496 carry it in their names.
ApiKeys == {"AAAA", "BBBB"}

DefaultKey == "AAAA"

\* No journal of any credential exists.
NoJournals == [k \in ApiKeys |-> [submitted |-> <<>>, downloaded |-> <<>>]]

(* --------------------------- tasks and statements --------------------- *)

\* The tasks of one event loop: the submit task and the download task of every
\* request file, and the main coroutine of a cancelling process.
SubmitTasks == {<<"submit_batch", f>> : f \in RequestFiles}

DownloadTasks == {<<"download_batch_to_response_file", f>> : f \in RequestFiles}

CancelTask == <<"cancel_batches", <<"batch_objects_submitted", "jsonl">>>>

Tasks == SubmitTasks \cup DownloadTasks \cup {CancelTask}

\* The event loop executes no task.
NoTask == <<"none", <<"none", "none">>>>

\* submit_batch_from_request_file and submit_batch, the statements of lines
\* 546, 553, 556, 580, 612, 613, 614, 615 and 618-621 (with 688).
submit_batch_statements ==
  <<"start", "files.create", "sleep", "wait_for_processing", "batches.create",
    "open", "json.dump", "write", "flush", "returned">>

\* download_batch_to_response_file, the statements of lines 969 (916),
\* 974-981, 982, 983, 984, 989, 990 and 992-994.
download_statements ==
  <<"start", "files.content", "open", "json.dump", "write", "flush",
    "files.delete_input", "files.delete_output", "returned">>

\* cancel_batches, lines 627-634, 642-644 and the os._exit of line 334.
cancel_statements == <<"none", "gather", "os.rename", "os._exit">>

\* Faulty variant: a suspension point lies between json.dump and the write of
\* the newline.
SuspensionPoints_InsideAppend ==
  {"files.create", "sleep", "wait_for_processing", "batches.create",
   "files.content", "files.delete_input", "files.delete_output", "gather",
   "json.dump"}

\* The statements at which a task is suspended: the awaits of the provider
\* calls, asyncio.sleep and asyncio.gather.
SuspensionPoints ==
  {"files.create", "sleep", "wait_for_processing", "batches.create",
   "files.content", "files.delete_input", "files.delete_output", "gather"}

(* -------------------------------- state -------------------------------- *)

VARIABLES
  submitted_batch_objects_file,   \* the submitted journal: Seq of Batch objects
  downloaded_batch_objects_file,  \* the downloaded journal: Seq of Batch objects
  response_files,                 \* the response files that exist
  provider,                       \* batch ID -> state of the batch at the provider
  request_files,                  \* the request files of the working directory
  requests,                       \* request file -> number and joined size of its requests
  delete_successful_batch_files,
  delete_failed_batch_files,
  tracker,                        \* the BatchStatusTracker of the current run
  run,                            \* number of the current run
  pc,                             \* where the run's main coroutine stands
  scan,                           \* resume scan: journal line and tracker call
  submit_task,                    \* request file -> its submit task's position
  status_tasks,                   \* batches still to be checked in this cycle
  download_task,                  \* batch ID -> its download task's position
  result,                         \* how the run ended, "running" until then
  calls,                          \* provider calls issued in the current run
  cancelled_batch_objects_file,   \* the submitted journal renamed to .cancelled
  cancel_task,                    \* batch ID -> position or return value of cancel_batch
  exit_code,                      \* the status os._exit was called with, "none" until then
  cancels,                        \* number of cancel invocations so far
  generic_requests,               \* the lines of the request file of finished_batch
  finished_batch,                 \* the Batch object handed to download_batch_to_response_file
  provider_files,                 \* the lines of that batch's output and error file
  file_content,                   \* what download_batch returned
  response_file_lines,            \* the GenericResponses written to the response file
  transform_pc,                   \* where download_batch_to_response_file stands
  semaphore,                      \* the free permits of self.semaphore
  api_key,                        \* client.api_key[-4:] of the current run
  other_journals,                 \* credential -> the journals named after it,
                                  \* for the credentials not in use
  running,                        \* the task the event loop is executing
  statement,                      \* task -> the statement it has executed last
  journal_text,                   \* journal -> what was written to it, piece by piece
  paths                           \* a working directory, two of its request files and
                                  \* what the two path conversions returned for them

vars ==
  <<submitted_batch_objects_file, downloaded_batch_objects_file, response_files,
    provider, request_files, requests, delete_successful_batch_files,
    delete_failed_batch_files, tracker, run, pc, scan, submit_task, status_tasks, download_task,
    result, calls, cancelled_batch_objects_file, cancel_task, exit_code, cancels,
    generic_requests, finished_batch, provider_files, file_content,
    response_file_lines, transform_pc, semaphore, api_key, other_journals,
    running, statement, journal_text, paths>>

appends == <<running, statement, journal_text>>

credentials == <<api_key, other_journals>>

disk == <<submitted_batch_objects_file, downloaded_batch_objects_file, response_files>>

config ==
  <<request_files, requests, delete_successful_batch_files, delete_failed_batch_files>>

cancellation == <<cancelled_batch_objects_file, cancel_task, exit_code, cancels>>

transformer ==
  <<generic_requests, finished_batch, provider_files, file_content,
    response_file_lines, transform_pc>>

\* No journal was written and no task of the event loop has started.
NoAppends ==
  /\ running = NoTask
  /\ statement = [t \in Tasks |-> IF t = CancelTask THEN "none" ELSE "start"]
  /\ journal_text = [submitted |-> <<>>, downloaded |-> <<>>, cancelled |-> <<>>]

\* No batch is being transformed.
NoTransform ==
  /\ generic_requests = <<>>
  /\ finished_batch = [status |-> "none", output_file_id |-> FALSE, error_file_id |-> FALSE]
  /\ provider_files = [output |-> <<>>, error |-> <<>>]
  /\ file_content = [is_None |-> TRUE, text |-> <<>>]
  /\ response_file_lines = <<>>
  /\ transform_pc = "none"

\* BatchManager.__init__ and line 760: the tracker seeded with the request files.
NewRun ==
  /\ tracker' = [BatchStatusTracker EXCEPT !.unsubmitted_request_files = request_files]
  /\ pc' = "track_downloaded"
  /\ scan' = [line |-> 1, call |-> "mark_as_submitted"]
  /\ submit_task' = [f \in RequestFiles |-> "none"]
  /\ status_tasks' = {}
  /\ download_task' = [b \in BatchIds |-> "none"]
  /\ result' = "running"
  /\ calls' = {}
  /\ cancel_task' = [b \in BatchIds |-> "none"]
  /\ exit_code' = "none"

Init ==
  /\ submitted_batch_objects_file = <<>>
  /\ downloaded_batch_objects_file = <<>>
  /\ response_files = {}
  /\ provider = [b \in BatchIds |-> NoBatch]
  /\ request_files \in SUBSET RequestFiles
  /\ requests = [f \in RequestFiles |->
                   [n_requests |-> NReq, file_content_size |-> MinFileContentSize(NReq)]]
  /\ delete_successful_batch_files \in BOOLEAN
  /\ delete_failed_batch_files \in BOOLEAN
  /\ tracker = [BatchStatusTracker EXCEPT !.unsubmitted_request_files = request_files]
  /\ run = 1
  /\ pc = "track_downloaded"
  /\ scan = [line |-> 1, call |-> "mark_as_submitted"]
  /\ submit_task = [f \in RequestFiles |-> "none"]
  /\ status_tasks = {}
  /\ download_task = [b \in BatchIds |-> "none"]
  /\ result = "running"
  /\ calls = {}
  /\ cancelled_batch_objects_file = <<>>
  /\ cancel_task = [b \in BatchIds |-> "none"]
  /\ exit_code = "none"
  /\ cancels = 0
  /\ NoTransform
  /\ semaphore = MAX_CONCURRENT_BATCH_OPERATIONS
  /\ api_key = DefaultKey
  /\ other_journals = NoJournals
  /\ NoAppends
  /\ paths = NoPaths

\* An exception leaves the run's coroutine: the event loop stops, the tasks
\* still pending are never resumed.
Raise(exception) ==
  /\ result' = exception
  /\ pc' = "done"

\* A call of the provider API about the batch (or the batch to be) id, issued
\* by a task that holds this many permits of self.semaphore; the two places
\* that call client.batches.retrieve are told apart by their method:
\* retrieve_batch (line 648) and check_batch_status (line 800).
CallHolding(op, id, permits) ==
  calls' = calls \cup {[op |-> op, id |-> id, permits |-> permits]}

\* A call issued inside one "async with self.semaphore" block.
Call(op, id) == CallHolding(op, id, 1)

\* The call was issued in the current run.
Called(op, id) == \E c \in calls : c.op = op /\ c.id = id

(* ----------------------------- resume scan ----------------------------- *)

\* Faulty variant: the existence of the response file is not asserted.
TrackDownloadedSubmitted_NoExistsAssert ==
  /\ result = "running" /\ pc = "track_downloaded"
  /\ scan.call = "mark_as_submitted"
  /\ scan.line <= Len(downloaded_batch_objects_file)
  /\ LET batch_object == downloaded_batch_objects_file[scan.line]
         request_file == request_file_name(batch_object.id)
     IN IF request_file \in tracker.unsubmitted_request_files
          THEN /\ tracker' = mark_as_submitted(tracker, request_file, batch_object)
               /\ scan' = [scan EXCEPT !.call = "mark_as_finished"]
               /\ UNCHANGED <<pc, result>>
          ELSE /\ Raise("AssertionError")
               /\ UNCHANGED <<tracker, scan>>
  /\ UNCHANGED <<disk, provider, config, paths, credentials, appends, transformer, semaphore, cancellation, run, submit_task, status_tasks,
                 download_task, calls>>

\* track_already_downloaded_batches, one journal line: the two assertions and
\* the first tracker call.
TrackDownloadedSubmitted ==
  /\ result = "running" /\ pc = "track_downloaded"
  /\ scan.call = "mark_as_submitted"
  /\ scan.line <= Len(downloaded_batch_objects_file)
  /\ LET batch_object == downloaded_batch_objects_file[scan.line]
         request_file == request_file_name(batch_object.id)
     IN IF /\ request_file \in tracker.unsubmitted_request_files
           /\ request_file_to_response_file(request_file) \in response_files
          THEN /\ tracker' = mark_as_submitted(tracker, request_file, batch_object)
               /\ scan' = [scan EXCEPT !.call = "mark_as_finished"]
               /\ UNCHANGED <<pc, result>>
          ELSE /\ Raise("AssertionError")
               /\ UNCHANGED <<tracker, scan>>
  /\ UNCHANGED <<disk, provider, config, paths, credentials, appends, transformer, semaphore, cancellation, run, submit_task, status_tasks,
                 download_task, calls>>

TrackDownloadedFinished ==
  /\ result = "running" /\ pc = "track_downloaded"
  /\ scan.call = "mark_as_finished"
  /\ tracker' = mark_as_finished(tracker, downloaded_batch_objects_file[scan.line])
  /\ scan' = [scan EXCEPT !.call = "mark_as_downloaded"]
  /\ UNCHANGED <<disk, provider, config, paths, credentials, appends, transformer, semaphore, cancellation, run, pc, submit_task, status_tasks,
                 download_task, result, calls>>

TrackDownloadedDownloaded ==
  /\ result = "running" /\ pc = "track_downloaded"
  /\ scan.call = "mark_as_downloaded"
  /\ tracker' = mark_as_downloaded(tracker, downloaded_batch_objects_file[scan.line])
  /\ scan' = [line |-> scan.line + 1, call |-> "mark_as_submitted"]
  /\ UNCHANGED <<disk, provider, config, paths, credentials, appends, transformer, semaphore, cancellation, run, pc, submit_task, status_tasks,
                 download_task, result, calls>>

TrackDownloadedEnd ==
  /\ result = "running" /\ pc = "track_downloaded"
  /\ scan.call = "mark_as_submitted"
  /\ scan.line > Len(downloaded_batch_objects_file)
  /\ pc' = "track_submitted"
  /\ scan' = [line |-> 1, call |-> "retrieve_batch"]
  /\ UNCHANGED <<disk, provider, config, paths, credentials, appends, transformer, semaphore, cancellation, tracker, run, submit_task, status_tasks,
                 download_task, result, calls>>

\* Faulty variant: the retrieved batch is not put into the tracker.
TrackSubmittedLine_NotTracked ==
  /\ result = "running" /\ pc = "track_submitted"
  /\ scan.line <= Len(submitted_batch_objects_file)
  /\ LET id == submitted_batch_objects_file[scan.line].id
     IN /\ CallHolding("retrieve_batch", id, 0)
        /\ \/ /\ Raise("ProviderError")
              /\ UNCHANGED <<provider, scan>>
           \/ \E s \in Retrieved(provider[id]) :
                /\ provider' = [provider EXCEPT ![id] = s]
                /\ scan' = [scan EXCEPT !.line = @ + 1]
                /\ UNCHANGED <<pc, result>>
  /\ UNCHANGED <<disk, config, paths, credentials, appends, transformer, semaphore, cancellation, tracker, run, submit_task, status_tasks, download_task>>

\* track_already_submitted_batches, one journal line.
TrackSubmittedLine ==
  /\ result = "running" /\ pc = "track_submitted"
  /\ scan.line <= Len(submitted_batch_objects_file)
  /\ LET id == submitted_batch_objects_file[scan.line].id
         request_file == request_file_name(id)
     IN /\ CallHolding("retrieve_batch", id, 0)
        /\ \/ /\ Raise("ProviderError")
              /\ UNCHANGED <<provider, tracker, scan>>
           \/ \E s \in Retrieved(provider[id]) :
                /\ provider' = [provider EXCEPT ![id] = s]
                /\ tracker' =
                     IF request_file \in tracker.unsubmitted_request_files
                       THEN mark_as_submitted(tracker, request_file, BatchObject(id, s))
                       ELSE tracker
                /\ scan' = [scan EXCEPT !.line = @ + 1]
                /\ UNCHANGED <<pc, result>>
  /\ UNCHANGED <<disk, config, paths, credentials, appends, transformer, semaphore, cancellation, run, submit_task, status_tasks, download_task>>

\* Lines 711-778: the end of the scan, the early exit and the submit tasks.
TrackSubmittedEnd ==
  /\ result = "running" /\ pc = "track_submitted"
  /\ scan.line > Len(submitted_batch_objects_file)
  /\ tracker' = [tracker EXCEPT !.n_total_batches =
                     @ + Cardinality(tracker.unsubmitted_request_files)]
  /\ IF tracker.unsubmitted_request_files = {}
       THEN pc' = "poll" /\ UNCHANGED submit_task
       ELSE /\ pc' = "submit"
            /\ submit_task' =
                 [f \in RequestFiles |->
                    IF f \in tracker.unsubmitted_request_files THEN "start" ELSE "none"]
  /\ UNCHANGED <<disk, provider, config, paths, credentials, appends, transformer, semaphore, cancellation, run, scan, status_tasks, download_task,
                 result, calls>>

(* ------------------------------ submission ----------------------------- *)

\* submit_batch lines 607-609: create_batch_file, then upload_batch_file up to
\* the answer of client.files.create.
UploadBatchFile(f) ==
  /\ result = "running" /\ pc = "submit"
  /\ submit_task[f] = "start"
  /\ IF create_batch_file(requests[f]) = "ValueError"
       THEN Raise("ValueError") /\ UNCHANGED <<submit_task, calls>>
       ELSE /\ Call("upload", <<f, run>>)
            /\ \/ Raise("ProviderError") /\ UNCHANGED submit_task
               \/ /\ submit_task' = [submit_task EXCEPT ![f] = "uploaded"]
                  /\ UNCHANGED <<pc, result>>
  /\ UNCHANGED <<disk, provider, config, paths, credentials, appends, transformer, semaphore, cancellation, tracker, run, scan, status_tasks, download_task>>

\* upload_batch_file: the sleep and client.files.wait_for_processing.
WaitForProcessing(f) ==
  /\ result = "running" /\ pc = "submit"
  /\ submit_task[f] = "uploaded"
  /\ Call("wait_for_processing", <<f, run>>)
  /\ \/ Raise("ProviderError") /\ UNCHANGED submit_task
     \/ submit_task' = [submit_task EXCEPT ![f] = "ready"] /\ UNCHANGED <<pc, result>>
  /\ UNCHANGED <<disk, provider, config, paths, credentials, appends, transformer, semaphore, cancellation, tracker, run, scan, status_tasks, download_task>>

\* Faulty variant: the failed create-batch call leaves a line in the journal.
CreateBatch_FailureJournalled(f) ==
  /\ result = "running" /\ pc = "submit"
  /\ submit_task[f] = "ready"
  /\ Call("create", <<f, run>>)
  /\ \/ /\ Raise("ProviderError")
        /\ submitted_batch_objects_file' =
             Append(submitted_batch_objects_file, BatchObject(<<f, run>>, NewBatch))
        /\ UNCHANGED <<submit_task, provider>>
     \/ /\ provider' = [provider EXCEPT ![<<f, run>>] = NewBatch]
        /\ submit_task' = [submit_task EXCEPT ![f] = "created"]
        /\ UNCHANGED <<pc, result, submitted_batch_objects_file>>
  /\ UNCHANGED <<downloaded_batch_objects_file, response_files, config, paths, credentials, appends,
                 transformer, semaphore, cancellation, tracker, run, scan,
                 status_tasks, download_task>>

\* create_batch: client.batches.create is sent; the provider creates the batch.
CreateBatch(f) ==
  /\ result = "running" /\ pc = "submit"
  /\ submit_task[f] = "ready"
  /\ Call("create", <<f, run>>)
  /\ \/ Raise("ProviderError") /\ UNCHANGED <<submit_task, provider>>
     \/ /\ provider' = [provider EXCEPT ![<<f, run>>] = NewBatch]
        /\ submit_task' = [submit_task EXCEPT ![f] = "created"]
        /\ UNCHANGED <<pc, result>>
  /\ UNCHANGED <<disk, config, paths, credentials, appends, transformer, semaphore, cancellation, tracker, run, scan, status_tasks, download_task>>

\* submit_batch lines 612-621 on the tracker t, batch_object being the answer
\* of create_batch and n_requests being len(requests).
submit_batch(t, n_requests, batch_object) ==
  [t EXCEPT !.n_total_requests = @ + n_requests,
            !.submitted_batch_ids = @ \cup {batch_object.id}]

\* Faulty variant: the batch is tracked without a line in the journal.
SubmitBatch_NotJournalled(f) ==
  /\ result = "running" /\ pc = "submit"
  /\ submit_task[f] = "created"
  /\ LET batch_object == BatchObject(<<f, run>>, NewBatch)
         journalled == submit_batch(tracker, requests[f].n_requests, batch_object)
     IN /\ tracker' = mark_as_submitted(journalled, f, batch_object)
        /\ submit_task' = [submit_task EXCEPT ![f] = "done"]
  /\ UNCHANGED <<disk, provider, config, paths, credentials, appends, transformer, semaphore, cancellation,
                 run, pc, scan, status_tasks, download_task, result, calls>>

\* The answer of create_batch arrives: submit_batch lines 612-621, then
\* submit_batch_from_request_file line 688 with the assertion of line 376.
SubmitBatch(f) ==
  /\ result = "running" /\ pc = "submit"
  /\ submit_task[f] = "created"
  /\ LET batch_object == BatchObject(<<f, run>>, NewBatch)
         journalled == submit_batch(tracker, requests[f].n_requests, batch_object)
     IN /\ submitted_batch_objects_file' =
             Append(submitted_batch_objects_file, batch_object)
        /\ IF f \in journalled.unsubmitted_request_files
             THEN /\ tracker' = mark_as_submitted(journalled, f, batch_object)
                  /\ submit_task' = [submit_task EXCEPT ![f] = "done"]
                  /\ UNCHANGED <<pc, result>>
             ELSE /\ tracker' = journalled
                  /\ Raise("AssertionError")
                  /\ UNCHANGED submit_task
  /\ UNCHANGED <<downloaded_batch_objects_file, response_files, provider, config, paths, credentials, appends, transformer, semaphore, cancellation,
                 run, scan, status_tasks, download_task, calls>>

\* Lines 778-780: asyncio.gather of the submit tasks returns.
SubmitGather ==
  /\ result = "running" /\ pc = "submit"
  /\ \A f \in RequestFiles : submit_task[f] \in {"none", "done"}
  /\ pc' = "poll"
  /\ UNCHANGED <<disk, provider, config, paths, credentials, appends, transformer, semaphore, cancellation, tracker, run, scan, submit_task,
                 status_tasks, download_task, result, calls>>

(* -------------------------------- polling ------------------------------ *)

\* Line 857: the loop condition holds; the status tasks of one cycle are made.
PollCycle ==
  /\ result = "running" /\ pc = "poll"
  /\ tracker.submitted_batch_ids # {}
  /\ tracker.n_finished_requests < MaxFinished
  /\ status_tasks' = tracker.submitted_batch_ids
  /\ pc' = "check_batch_status"
  /\ UNCHANGED <<disk, provider, config, paths, credentials, appends, transformer, semaphore, cancellation, tracker, run, scan, submit_task,
                 download_task, result, calls>>

\* Faulty variant: every status that is not in progress counts as returned.
check_batch_status_UnknownReturned(t, batch) ==
  LET counted == [t EXCEPT !.n_finished_requests = @ + batch.completed + batch.failed]
  IN IF batch.status \notin in_progress_statuses
       THEN [counted EXCEPT !.submitted_batch_ids = @ \ {batch.id},
                            !.finished_batch_ids = @ \cup {batch.id}]
       ELSE counted

\* Faulty variant: a returned batch is not removed from submitted_batch_ids.
check_batch_status_KeepsSubmitted(t, batch) ==
  LET counted == [t EXCEPT !.n_finished_requests = @ + batch.completed + batch.failed]
  IN IF batch.status \in finished_statuses
       THEN [counted EXCEPT !.finished_batch_ids = @ \cup {batch.id}]
       ELSE counted

\* check_batch_status lines 802-824 on the tracker t, batch being the answer
\* of client.batches.retrieve.
check_batch_status(t, batch) ==
  LET counted == [t EXCEPT !.n_finished_requests = @ + batch.completed + batch.failed]
  IN IF batch.status \in finished_statuses
       THEN [counted EXCEPT !.submitted_batch_ids = @ \ {batch.id},
                            !.finished_batch_ids = @ \cup {batch.id}]
       ELSE counted

CheckBatchStatus(id) ==
  /\ result = "running" /\ pc = "check_batch_status"
  /\ id \in status_tasks
  /\ Call("check_batch_status", id)
  /\ \/ /\ Raise("ProviderError")
        /\ UNCHANGED <<provider, tracker, status_tasks, download_task>>
     \/ \E s \in Retrieved(provider[id]) :
          /\ provider' = [provider EXCEPT ![id] = s]
          /\ tracker' = check_batch_status(tracker, BatchObject(id, s))
          /\ status_tasks' = status_tasks \ {id}
          /\ download_task' =
               IF s.status \in finished_statuses
                 THEN [download_task EXCEPT ![id] = "start"]
                 ELSE download_task
          /\ UNCHANGED <<pc, result>>
  /\ UNCHANGED <<disk, config, paths, credentials, appends, transformer, semaphore, cancellation, run, scan, submit_task>>

\* Lines 862-874: asyncio.gather of the status tasks returns and the download
\* tasks of the returned batches are made.
StatusGather ==
  /\ result = "running" /\ pc = "check_batch_status"
  /\ status_tasks = {}
  /\ pc' = "download"
  /\ UNCHANGED <<disk, provider, config, paths, credentials, appends, transformer, semaphore, cancellation, tracker, run, scan, submit_task,
                 status_tasks, download_task, result, calls>>

(* ------------------------------- download ------------------------------ *)

\* The branch download_batch takes for a batch (lines 915, 920, 928, 939).
download_branch(batch) ==
  CASE batch.status = "completed" /\ batch.output_file_id -> "output"
    [] batch.status = "failed" /\ batch.error_file_id -> "error"
    [] batch.status = "failed" /\ ~batch.error_file_id -> "errors"
    [] batch.status \in {"cancelled", "expired"} -> "cancelled_or_expired"
    [] OTHER -> "none"

\* Faulty variant: the journal line is appended although no response file
\* was written.
Persist_JournalBeforeResponseFile(id) ==
  LET batch == BatchObject(id, provider[id])
  IN /\ UNCHANGED response_files
     /\ downloaded_batch_objects_file' = Append(downloaded_batch_objects_file, batch)
     /\ IF delete_successful_batch_files
          THEN /\ download_task' = [download_task EXCEPT ![id] = "delete_input"]
               /\ UNCHANGED tracker
          ELSE /\ download_task' = [download_task EXCEPT ![id] = "response_file"]
               /\ tracker' = mark_as_downloaded(tracker, batch)

\* Faulty variant: the tracker is not told of the download.
Persist_WithoutMarkAsDownloaded(id) ==
  LET batch == BatchObject(id, provider[id])
  IN /\ response_files' =
          response_files \cup {request_file_to_response_file(request_file_name(id))}
     /\ downloaded_batch_objects_file' = Append(downloaded_batch_objects_file, batch)
     /\ download_task' =
          [download_task EXCEPT ![id] =
             IF delete_successful_batch_files THEN "delete_input" ELSE "response_file"]
     /\ UNCHANGED tracker

\* download_batch_to_response_file lines 974-984 and, when nothing is to be
\* deleted, line 992: the response file, the journal line, the tracker.
Persist(id) ==
  LET batch == BatchObject(id, provider[id])
  IN /\ response_files' =
          response_files \cup {request_file_to_response_file(request_file_name(id))}
     /\ downloaded_batch_objects_file' = Append(downloaded_batch_objects_file, batch)
     /\ IF delete_successful_batch_files
          THEN /\ download_task' = [download_task EXCEPT ![id] = "delete_input"]
               /\ UNCHANGED tracker
          ELSE /\ download_task' = [download_task EXCEPT ![id] = "response_file"]
               /\ tracker' = mark_as_downloaded(tracker, batch)

\* download_batch: client.files.content of the output or the error file.
DownloadContent(id) ==
  /\ result = "running" /\ pc = "download"
  /\ download_task[id] = "start"
  /\ download_branch(BatchObject(id, provider[id])) \in {"output", "error"}
  /\ Call("content", id)
  /\ \/ /\ Raise("ProviderError")
        /\ UNCHANGED <<disk, tracker, download_task>>
     \/ /\ IF /\ download_branch(BatchObject(id, provider[id])) = "error"
              /\ delete_failed_batch_files
             THEN /\ download_task' =
                       [download_task EXCEPT ![id] = "delete_failed_input"]
                  /\ UNCHANGED <<disk, tracker>>
             ELSE /\ Persist(id)
                  /\ UNCHANGED submitted_batch_objects_file
        /\ UNCHANGED <<pc, result>>
  /\ UNCHANGED <<provider, config, paths, credentials, appends, transformer, semaphore, cancellation, run, scan, submit_task, status_tasks>>

\* download_batch lines 924-925: the two delete_file calls of a failed batch,
\* each acquiring self.semaphore again inside the block of line 913.
DeleteFailedInput(id) ==
  /\ result = "running" /\ pc = "download"
  /\ download_task[id] = "delete_failed_input"
  /\ CallHolding("delete_input", id, 2)
  /\ \/ Raise("ProviderError") /\ UNCHANGED download_task
     \/ /\ download_task' = [download_task EXCEPT ![id] = "delete_failed_error"]
        /\ UNCHANGED <<pc, result>>
  /\ UNCHANGED <<disk, provider, config, paths, credentials, appends, transformer, semaphore, cancellation, tracker, run, scan, submit_task, status_tasks>>

DeleteFailedError(id) ==
  /\ result = "running" /\ pc = "download"
  /\ download_task[id] = "delete_failed_error"
  /\ CallHolding("delete_error", id, 2)
  /\ \/ Raise("ProviderError") /\ UNCHANGED <<disk, tracker, download_task>>
     \/ /\ Persist(id)
        /\ UNCHANGED <<submitted_batch_objects_file, pc, result>>
  /\ UNCHANGED <<provider, config, paths, credentials, appends, transformer, semaphore, cancellation, run, scan, submit_task, status_tasks>>

\* download_batch lines 928-944: the batches that have nothing to download.
DownloadNothing(id) ==
  /\ result = "running" /\ pc = "download"
  /\ download_task[id] = "start"
  /\ LET batch == BatchObject(id, provider[id])
         branch == download_branch(batch)
     IN /\ branch \in {"errors", "cancelled_or_expired", "none"}
        /\ IF branch = "errors" /\ ~batch.errors
             THEN Raise("AttributeError") /\ UNCHANGED download_task
             ELSE /\ download_task' =
                       [download_task EXCEPT ![id] =
                          IF branch # "none" /\ delete_failed_batch_files
                            THEN "delete_only_input" ELSE "None"]
                  /\ UNCHANGED <<pc, result>>
  /\ UNCHANGED <<disk, provider, config, paths, credentials, appends, transformer, semaphore, cancellation, tracker, run, scan, submit_task,
                 status_tasks, calls>>

\* download_batch lines 936 and 942.
DeleteOnlyInput(id) ==
  /\ result = "running" /\ pc = "download"
  /\ download_task[id] = "delete_only_input"
  /\ CallHolding("delete_input", id, 2)
  /\ \/ Raise("ProviderError") /\ UNCHANGED download_task
     \/ /\ download_task' = [download_task EXCEPT ![id] = "None"]
        /\ UNCHANGED <<pc, result>>
  /\ UNCHANGED <<disk, provider, config, paths, credentials, appends, transformer, semaphore, cancellation, tracker, run, scan, submit_task, status_tasks>>

\* download_batch_to_response_file lines 989-990: delete_file of the input
\* file, then of batch.output_file_id, which client.files.delete refuses
\* with a ValueError when it is None.
DeleteInput(id) ==
  /\ result = "running" /\ pc = "download"
  /\ download_task[id] = "delete_input"
  /\ Call("delete_input", id)
  /\ \/ Raise("ProviderError") /\ UNCHANGED download_task
     \/ /\ download_task' = [download_task EXCEPT ![id] = "delete_output"]
        /\ UNCHANGED <<pc, result>>
  /\ UNCHANGED <<disk, provider, config, paths, credentials, appends, transformer, semaphore, cancellation, tracker, run, scan, submit_task, status_tasks>>

DeleteOutput(id) ==
  /\ result = "running" /\ pc = "download"
  /\ download_task[id] = "delete_output"
  /\ IF ~provider[id].output_file_id
       THEN Raise("ValueError") /\ UNCHANGED <<tracker, download_task, calls>>
       ELSE /\ Call("delete_output", id)
            /\ \/ Raise("ProviderError") /\ UNCHANGED <<tracker, download_task>>
               \/ /\ tracker' = mark_as_downloaded(tracker, BatchObject(id, provider[id]))
                  /\ download_task' = [download_task EXCEPT ![id] = "response_file"]
                  /\ UNCHANGED <<pc, result>>
  /\ UNCHANGED <<disk, provider, config, paths, credentials, appends, transformer, semaphore, cancellation, run, scan, submit_task, status_tasks>>

\* The download tasks of the run that have returned.
Returned == {"None", "response_file"}

\* Lines 876-886: asyncio.gather of the download tasks returns; the loop
\* sleeps check_interval if requests are still missing.
DownloadGather ==
  /\ result = "running" /\ pc = "download"
  /\ \A id \in BatchIds : download_task[id] \in Returned \cup {"none"}
  /\ pc' = IF tracker.n_finished_requests + tracker.n_downloaded_requests
                < tracker.n_total_requests
             THEN "sleep" ELSE "poll"
  /\ UNCHANGED <<disk, provider, config, paths, credentials, appends, transformer, semaphore, cancellation, tracker, run, scan, submit_task,
                 status_tasks, download_task, result, calls>>

\* Line 886: asyncio.sleep(check_interval) returns.
Sleep ==
  /\ result = "running" /\ pc = "sleep"
  /\ pc' = "poll"
  /\ UNCHANGED <<disk, provider, config, paths, credentials, appends, transformer, semaphore, cancellation, tracker, run, scan, submit_task,
                 status_tasks, download_task, result, calls>>

\* Line 889: filter(None, all_response_files), a filter object.
response_files_filter == {id \in BatchIds : download_task[id] = "response_file"}

\* Faulty variant: the filter object is tested as the list of what it yields.
Truthy_AsList(filter_object) == filter_object # {}

\* Line 890: bool() of a filter object is True, whatever it would yield.
Truthy(filter_object) == TRUE

\* Lines 888-894: the loop has ended.
PollEnd ==
  /\ result = "running" /\ pc = "poll"
  /\ tracker.submitted_batch_ids = {}
  /\ result' = IF \/ Cardinality(tracker.downloaded_batch_ids) = 0
                  \/ ~Truthy(response_files_filter)
                 THEN "RuntimeError" ELSE "returned"
  /\ pc' = "done"
  /\ UNCHANGED <<disk, provider, config, paths, credentials, appends, transformer, semaphore, cancellation, tracker, run, scan, submit_task,
                 status_tasks, download_task, calls>>

(* ----------------------------- environment ----------------------------- *)

\* The process is started again on the same working directory, after the
\* run has ended or after it was stopped where it stands.
Restart ==
  /\ run < MaxRuns
  /\ run' = run + 1
  /\ NewRun
  /\ UNCHANGED <<disk, provider, config, paths, credentials, appends, transformer, semaphore, cancelled_batch_objects_file, cancels>>

\* A response file is removed from the working directory after the process
\* of the run has exited.
RemoveResponseFile(f) ==
  /\ result # "running"
  /\ run < MaxRuns
  /\ request_file_to_response_file(f) \in response_files
  /\ response_files' = response_files \ {request_file_to_response_file(f)}
  /\ pc' = "exited"
  /\ UNCHANGED <<submitted_batch_objects_file, downloaded_batch_objects_file,
                 provider, config, paths, credentials, appends, transformer, semaphore, cancellation, tracker, run, scan, submit_task,
                 status_tasks, download_task, result, calls>>

Next ==
  \/ TrackDownloadedSubmitted
  \/ TrackDownloadedFinished
  \/ TrackDownloadedDownloaded
  \/ TrackDownloadedEnd
  \/ TrackSubmittedLine
  \/ TrackSubmittedEnd
  \/ \E f \in RequestFiles : UploadBatchFile(f)
  \/ \E f \in RequestFiles : WaitForProcessing(f)
  \/ \E f \in RequestFiles : CreateBatch(f)
  \/ \E f \in RequestFiles : SubmitBatch(f)
  \/ SubmitGather
  \/ PollCycle
  \/ \E id \in BatchIds : CheckBatchStatus(id)
  \/ StatusGather
  \/ \E id \in BatchIds : DownloadContent(id)
  \/ \E id \in BatchIds : DeleteFailedInput(id)
  \/ \E id \in BatchIds : DeleteFailedError(id)
  \/ \E id \in BatchIds : DownloadNothing(id)
  \/ \E id \in BatchIds : DeleteOnlyInput(id)
  \/ \E id \in BatchIds : DeleteInput(id)
  \/ \E id \in BatchIds : DeleteOutput(id)
  \/ DownloadGather
  \/ Sleep
  \/ PollEnd
  \/ Restart
  \/ \E f \in RequestFiles : RemoveResponseFile(f)

Spec == Init /\ [][Next]_vars

(* ----------------- submission of files at the batch limits -------------- *)

\* Request files at, below and above the two limits of create_batch_file.
LimitCases ==
  [n_requests : {NReq, MAX_REQUESTS_PER_BATCH, MAX_REQUESTS_PER_BATCH + 1},
   file_content_size : {MAX_BYTES_PER_BATCH - 1, MAX_BYTES_PER_BATCH,
                        MAX_BYTES_PER_BATCH + 1}]

\* A first run on a fresh working directory whose request files are drawn
\* from LimitCases.
InitLimits ==
  /\ submitted_batch_objects_file = <<>>
  /\ downloaded_batch_objects_file = <<>>
  /\ response_files = {}
  /\ provider = [b \in BatchIds |-> NoBatch]
  /\ request_files \in SUBSET RequestFiles
  /\ requests \in [RequestFiles -> LimitCases]
  /\ delete_successful_batch_files = FALSE
  /\ delete_failed_batch_files = FALSE
  /\ tracker = [BatchStatusTracker EXCEPT !.unsubmitted_request_files = request_files]
  /\ run = 1
  /\ pc = "track_downloaded"
  /\ scan = [line |-> 1, call |-> "mark_as_submitted"]
  /\ submit_task = [f \in RequestFiles |-> "none"]
  /\ status_tasks = {}
  /\ download_task = [b \in BatchIds |-> "none"]
  /\ result = "running"
  /\ calls = {}
  /\ cancelled_batch_objects_file = <<>>
  /\ cancel_task = [b \in BatchIds |-> "none"]
  /\ exit_code = "none"
  /\ cancels = 0
  /\ NoTransform
  /\ semaphore = MAX_CONCURRENT_BATCH_OPERATIONS
  /\ api_key = DefaultKey
  /\ other_journals = NoJournals
  /\ NoAppends
  /\ paths = NoPaths

\* submit_batches_from_request_files alone.
NextLimits ==
  \/ TrackDownloadedEnd
  \/ TrackSubmittedEnd
  \/ \E f \in RequestFiles : UploadBatchFile(f)
  \/ \E f \in RequestFiles : WaitForProcessing(f)
  \/ \E f \in RequestFiles : CreateBatch(f)
  \/ \E f \in RequestFiles : SubmitBatch(f)
  \/ SubmitGather

SpecLimits == InitLimits /\ [][NextLimits]_vars

(* ------------------------------ cancellation --------------------------- *)

\* The batch IDs of the lines of a journal.
JournalIds(journal) == {journal[i].id : i \in 1..Len(journal)}

\* OpenAIBatchRequestProcessor.cancel_batches is called in a new process on
\* the working directory: a new BatchManager, then BatchManager.cancel_batches
\* up to its gather; without a submitted journal it returns at once and the
\* process exits at line 334.
StartCancel ==
  /\ cancels < MaxCancels
  /\ cancels' = cancels + 1
  /\ tracker' = BatchStatusTracker
  /\ scan' = [line |-> 1, call |-> "mark_as_submitted"]
  /\ submit_task' = [f \in RequestFiles |-> "none"]
  /\ status_tasks' = {}
  /\ download_task' = [b \in BatchIds |-> "none"]
  /\ calls' = {}
  /\ IF submitted_batch_objects_file = <<>>
       THEN /\ cancel_task' = [b \in BatchIds |-> "none"]
            /\ pc' = "cancel_exited"
            /\ result' = "os._exit"
            /\ exit_code' = "1"
       ELSE /\ cancel_task' =
                 [b \in BatchIds |->
                    IF b \in JournalIds(submitted_batch_objects_file)
                      THEN "start" ELSE "none"]
            /\ pc' = "cancel_batches"
            /\ result' = "running"
            /\ exit_code' = "none"
  /\ UNCHANGED <<disk, provider, config, paths, credentials, appends, transformer, semaphore, run, cancelled_batch_objects_file>>

\* Faulty variant: a batch retrieved as completed is cancelled like the others.
CancelRetrieve_CompletedToo(id) ==
  /\ result = "running" /\ pc = "cancel_batches"
  /\ cancel_task[id] = "start"
  /\ \/ /\ CallHolding("retrieve_batch", id, 1)
        /\ result' = "ProviderError"
        /\ pc' = "cancel_exited"
        /\ UNCHANGED <<provider, cancel_task>>
     \/ \E s \in Retrieved(provider[id]) :
          /\ provider' = [provider EXCEPT ![id] = s]
          /\ calls' = calls \cup {[op |-> "retrieve_batch", id |-> id, permits |-> 1],
                                  [op |-> "cancel", id |-> id, permits |-> 1]}
          /\ cancel_task' = [cancel_task EXCEPT ![id] = "cancelling"]
          /\ UNCHANGED <<pc, result>>
  /\ UNCHANGED <<disk, config, paths, credentials, appends, transformer, semaphore, tracker, run, scan, submit_task, status_tasks,
                 download_task, cancelled_batch_objects_file, exit_code, cancels>>

\* cancel_batch lines 655-661: the retrieve inside the semaphore; its failure
\* leaves cancel_batches through the gather, so that neither the rename nor
\* os._exit is reached; a completed batch returns 0; for any other batch
\* client.batches.cancel is called.
CancelRetrieve(id) ==
  /\ result = "running" /\ pc = "cancel_batches"
  /\ cancel_task[id] = "start"
  /\ \/ /\ CallHolding("retrieve_batch", id, 1)
        /\ result' = "ProviderError"
        /\ pc' = "cancel_exited"
        /\ UNCHANGED <<provider, cancel_task>>
     \/ \E s \in Retrieved(provider[id]) :
          /\ provider' = [provider EXCEPT ![id] = s]
          /\ IF s.status = "completed"
               THEN /\ CallHolding("retrieve_batch", id, 1)
                    /\ cancel_task' = [cancel_task EXCEPT ![id] = "0"]
               ELSE /\ calls' = calls \cup
                         {[op |-> "retrieve_batch", id |-> id, permits |-> 1],
                          [op |-> "cancel", id |-> id, permits |-> 1]}
                    /\ cancel_task' = [cancel_task EXCEPT ![id] = "cancelling"]
          /\ UNCHANGED <<pc, result>>
  /\ UNCHANGED <<disk, config, paths, credentials, appends, transformer, semaphore, tracker, run, scan, submit_task, status_tasks,
                 download_task, cancelled_batch_objects_file, exit_code, cancels>>

\* cancel_batch lines 661-667: client.batches.cancel answers; the provider
\* accepts the cancellation of a batch in progress only, a failure is caught
\* and counted.
CancelReturn(id) ==
  /\ result = "running" /\ pc = "cancel_batches"
  /\ cancel_task[id] = "cancelling"
  /\ \/ /\ provider[id].status \in in_progress_statuses
        /\ provider' = [provider EXCEPT ![id].status = "cancelling"]
        /\ cancel_task' = [cancel_task EXCEPT ![id] = "0"]
     \/ /\ cancel_task' = [cancel_task EXCEPT ![id] = "-1"]
        /\ UNCHANGED provider
  /\ UNCHANGED <<disk, config, paths, credentials, appends, transformer, semaphore, tracker, run, pc, scan, submit_task, status_tasks,
                 download_task, result, calls, cancelled_batch_objects_file,
                 exit_code, cancels>>

\* Faulty variant: the submitted journal is copied, not renamed.
CancelGather_JournalKept ==
  /\ result = "running" /\ pc = "cancel_batches"
  /\ \A id \in BatchIds : cancel_task[id] \in {"none", "0", "-1"}
  /\ cancelled_batch_objects_file' = submitted_batch_objects_file
  /\ pc' = "cancel_exited"
  /\ result' = "os._exit"
  /\ exit_code' = "1"
  /\ UNCHANGED <<disk, provider, config, paths, credentials, appends, transformer, semaphore, tracker, run, scan, submit_task,
                 status_tasks, download_task, calls, cancel_task, cancels>>

\* cancel_batches lines 634-644 and OpenAIBatchRequestProcessor.cancel_batches
\* lines 332-334: the gather returns, the submitted journal is renamed
\* (replacing an earlier .cancelled file) and the process exits with 1.
CancelGather ==
  /\ result = "running" /\ pc = "cancel_batches"
  /\ \A id \in BatchIds : cancel_task[id] \in {"none", "0", "-1"}
  /\ cancelled_batch_objects_file' = submitted_batch_objects_file
  /\ submitted_batch_objects_file' = <<>>
  /\ pc' = "cancel_exited"
  /\ result' = "os._exit"
  /\ exit_code' = "1"
  /\ UNCHANGED <<downloaded_batch_objects_file, response_files, provider, config, paths, credentials, appends, transformer, semaphore,
                 tracker, run, scan, submit_task, status_tasks, download_task,
                 calls, cancel_task, cancels>>

\* The manager is run again once the cancelling process has ended.
RunAfterCancel ==
  /\ pc = "cancel_exited"
  /\ Restart

\* The polling loop of the run that precedes the cancellation; the run that
\* follows it is taken up to the end of its submission phase.
PollCycleBeforeCancel ==
  /\ cancels = 0
  /\ PollCycle

\* A run stopped anywhere, a cancellation and a further run on a working
\* directory of two request files, no provider file being deleted.
InitCancel ==
  /\ Init
  /\ request_files = RequestFiles
  /\ ~delete_successful_batch_files
  /\ ~delete_failed_batch_files

NextCancel ==
  \/ TrackDownloadedSubmitted
  \/ TrackDownloadedFinished
  \/ TrackDownloadedDownloaded
  \/ TrackDownloadedEnd
  \/ TrackSubmittedLine
  \/ TrackSubmittedEnd
  \/ \E f \in RequestFiles : UploadBatchFile(f)
  \/ \E f \in RequestFiles : WaitForProcessing(f)
  \/ \E f \in RequestFiles : CreateBatch(f)
  \/ \E f \in RequestFiles : SubmitBatch(f)
  \/ SubmitGather
  \/ PollCycleBeforeCancel
  \/ \E id \in BatchIds : CheckBatchStatus(id)
  \/ StatusGather
  \/ \E id \in BatchIds : DownloadContent(id)
  \/ \E id \in BatchIds : DownloadNothing(id)
  \/ DownloadGather
  \/ Sleep
  \/ PollEnd
  \/ RunAfterCancel
  \/ StartCancel
  \/ \E id \in BatchIds : CancelRetrieve(id)
  \/ \E id \in BatchIds : CancelReturn(id)
  \/ CancelGather

SpecCancel == InitCancel /\ [][NextCancel]_vars


(* ------------------------- response transformation --------------------- *)

\* The decimal digits, as the characters of a Python str.
Digits == <<"0", "1", "2", "3", "4", "5", "6", "7", "8", "9">>

DigitValue(c) == CHOOSE d \in 0..9 : Digits[d + 1] = c

RECURSIVE str(_)
\* str() of an int: its decimal digits, after a sign if it is negative.
str(n) ==
  IF n < 0 THEN <<"-">> \o str(-n)
  ELSE IF n < 10 THEN <<Digits[n + 1]>>
  ELSE str(n \div 10) \o <<Digits[(n % 10) + 1]>>

RECURSIVE int(_)
\* int() of a str of decimal digits with an optional sign.
int(s) ==
  IF s[1] = "-" THEN -int(Tail(s))
  ELSE IF Len(s) = 1 THEN DigitValue(s[1])
  ELSE int(SubSeq(s, 1, Len(s) - 1)) * 10 + DigitValue(s[Len(s)])

\* The original_row_idx of the first line of a request file.
RowOffsets == {0, 9}

\* The messages of a generic request.
Messages == {"A", "B"}

\* The request files of n lines the facade may write: consecutive row
\* indices from an offset, each request with its messages.
GenericRequestFiles(n) ==
  {[k \in 1..n |-> [original_row_idx |-> offset + k - 1, messages |-> m[k]]]
     : offset \in RowOffsets, m \in [1..n -> Messages]}

\* create_api_specific_request lines 128-167: the request sent to the
\* provider for a generic request.
create_api_specific_request(generic_request) ==
  [custom_id |-> str(generic_request.original_row_idx),
   body |-> generic_request.messages]

\* Faulty variant: the map is keyed by the position of the line in the file.
generic_request_map_ByPosition(request_file) ==
  [i \in {k - 1 : k \in DOMAIN request_file} |-> request_file[i + 1]]

\* Lines 193-198: the requests of the request file by original_row_idx, a
\* later line replacing an earlier one of the same index.
generic_request_map(request_file) ==
  [i \in {request_file[k].original_row_idx : k \in DOMAIN request_file} |->
     request_file[CHOOSE k \in DOMAIN request_file :
                    /\ request_file[k].original_row_idx = i
                    /\ \A j \in DOMAIN request_file :
                         request_file[j].original_row_idx = i => j <= k]]

\* The status codes of the lines of failed requests.
ErrorStatusCodes == {400, 500}

\* What the provider may report for one request of a completed batch: a line
\* of the output file with status code 200, whose message
\* parse_response_message accepts or rejects, or a line of the output or of
\* the error file with another status code.
RequestOutcomes ==
  [file : {"output"}, status_code : {200}, content : {"parses", "fails"}]
    \cup [file : {"output", "error"}, status_code : ErrorStatusCodes, content : {"none"}]

\* The lines of a provider file: those of the requests, in the order of the
\* request file, whose outcome is in that file; each echoes the custom_id of
\* its request.
FileLines(request_file, outcome, file) ==
  SelectSeq([k \in DOMAIN request_file |->
               [custom_id |-> create_api_specific_request(request_file[k]).custom_id,
                file |-> outcome[k].file,
                status_code |-> outcome[k].status_code,
                content |-> outcome[k].content]],
            LAMBDA line : line.file = file)

\* The terminal batches the provider may hand out for a request file, with
\* their files: a completed batch reports every request in the output file
\* or in the error file; a failed batch has no output and either an error
\* file with a line for every request or none; a cancelled or expired batch
\* has no file.
TerminalBatches(request_file) ==
  {[batch |-> [status |-> "completed",
               output_file_id |-> (FileLines(request_file, o, "output") # <<>>),
               error_file_id |-> (FileLines(request_file, o, "error") # <<>>)],
    files |-> [output |-> FileLines(request_file, o, "output"),
               error |-> FileLines(request_file, o, "error")]]
     : o \in [DOMAIN request_file -> RequestOutcomes]}
  \cup
  {[batch |-> [status |-> "failed", output_file_id |-> FALSE, error_file_id |-> TRUE],
    files |-> [output |-> <<>>, error |-> FileLines(request_file, o, "error")]]
     : o \in [DOMAIN request_file ->
                [file : {"error"}, status_code : ErrorStatusCodes, content : {"none"}]]}
  \cup
  {[batch |-> [status |-> st, output_file_id |-> FALSE, error_file_id |-> FALSE],
    files |-> [output |-> <<>>, error |-> <<>>]]
     : st \in {"failed", "cancelled", "expired"}}

\* download_batch lines 912-944: the content of the output file of a
\* completed batch, of the error file of a failed batch, None otherwise.
download_batch(batch, files) ==
  CASE download_branch(batch) = "output" -> [is_None |-> FALSE, text |-> files.output]
    [] download_branch(batch) = "error" -> [is_None |-> FALSE, text |-> files.error]
    [] OTHER -> [is_None |-> TRUE, text |-> <<>>]

\* An optional list: None, or the list.
NoneList == [is_None |-> TRUE, list |-> <<>>]

SomeList(list) == [is_None |-> FALSE, list |-> list]

\* parse_response_message (base_request_processor): the parsed message and
\* no errors when the content fits the response format, no message and the
\* list of errors otherwise.
parse_response_message(content) ==
  IF content = "parses"
    THEN [response_message |-> "message", response_errors |-> NoneList]
    ELSE [response_message |-> "None", response_errors |-> SomeList(<<"parse_error">>)]

\* Faulty variant: usage and cost are computed for every line.
GenericResponse_UsageOfEveryLine(raw_response, request_map) ==
  IF raw_response.status_code # 200
    THEN [generic_request |-> request_map[int(raw_response.custom_id)],
          response_message |-> "None",
          response_errors |-> SomeList(<<"status_code">>),
          token_usage |-> "TokenUsage",
          response_cost |-> "cost"]
    ELSE [generic_request |-> request_map[int(raw_response.custom_id)],
          response_message |->
            parse_response_message(raw_response.content).response_message,
          response_errors |->
            parse_response_message(raw_response.content).response_errors,
          token_usage |-> "TokenUsage",
          response_cost |-> "cost"]

\* Lines 202-258: the GenericResponse made of one downloaded line.
GenericResponse(raw_response, request_map) ==
  IF raw_response.status_code # 200
    THEN [generic_request |-> request_map[int(raw_response.custom_id)],
          response_message |-> "None",
          response_errors |-> SomeList(<<"status_code">>),
          token_usage |-> "None",
          response_cost |-> "None"]
    ELSE [generic_request |-> request_map[int(raw_response.custom_id)],
          response_message |->
            parse_response_message(raw_response.content).response_message,
          response_errors |->
            parse_response_message(raw_response.content).response_errors,
          token_usage |-> "TokenUsage",
          response_cost |-> "cost"]

\* The downloaded lines whose custom_id is no key of the map (line 204 raises
\* KeyError at the first of them).
UnknownLines(responses, request_map) ==
  {k \in DOMAIN responses : int(responses[k].custom_id) \notin DOMAIN request_map}

\* generic_response_file_from_responses lines 192-261: one GenericResponse
\* for each line of the downloaded text, up to the first line that raises.
generic_response_file_from_responses(responses, request_file) ==
  LET request_map == generic_request_map(request_file)
      unknown == UnknownLines(responses, request_map)
      written == IF unknown = {} THEN Len(responses)
                 ELSE (CHOOSE k \in unknown : \A j \in unknown : k <= j) - 1
  IN [lines |-> [k \in 1..written |-> GenericResponse(responses[k], request_map)],
      exception |-> IF unknown = {} THEN "none" ELSE "KeyError"]

\* download_batch_to_response_file line 969-972.
DownloadBatch ==
  /\ transform_pc = "download_batch"
  /\ file_content' = download_batch(finished_batch, provider_files)
  /\ transform_pc' = IF file_content'.is_None THEN "returned_None" ELSE "transform"
  /\ UNCHANGED <<disk, provider, config, paths, credentials, appends, cancellation, tracker, run, pc, scan,
                 submit_task, status_tasks, download_task, result, calls,
                 generic_requests, finished_batch, provider_files,
                 response_file_lines, semaphore>>

\* download_batch_to_response_file lines 974-976: the response file is
\* written from the downloaded content.
ResponseFileFromResponses ==
  /\ transform_pc = "transform"
  /\ LET written == generic_response_file_from_responses(file_content.text,
                                                          generic_requests)
     IN /\ response_file_lines' = written.lines
        /\ transform_pc' = IF written.exception = "none" THEN "written"
                           ELSE written.exception
  /\ UNCHANGED <<disk, provider, config, paths, credentials, appends, cancellation, tracker, run, pc, scan,
                 submit_task, status_tasks, download_task, result, calls,
                 generic_requests, finished_batch, provider_files, file_content,
                 semaphore>>

\* download_batch_to_response_file is called with a terminal batch of a
\* request file of up to MaxLines lines.
InitTransform ==
  /\ submitted_batch_objects_file = <<>>
  /\ downloaded_batch_objects_file = <<>>
  /\ response_files = {}
  /\ provider = [b \in BatchIds |-> NoBatch]
  /\ request_files = {}
  /\ requests = [f \in RequestFiles |->
                   [n_requests |-> NReq, file_content_size |-> MinFileContentSize(NReq)]]
  /\ delete_successful_batch_files = FALSE
  /\ delete_failed_batch_files = FALSE
  /\ tracker = BatchStatusTracker
  /\ run = 1
  /\ pc = "download"
  /\ scan = [line |-> 1, call |-> "mark_as_submitted"]
  /\ submit_task = [f \in RequestFiles |-> "none"]
  /\ status_tasks = {}
  /\ download_task = [b \in BatchIds |-> "none"]
  /\ result = "running"
  /\ calls = {}
  /\ cancelled_batch_objects_file = <<>>
  /\ cancel_task = [b \in BatchIds |-> "none"]
  /\ exit_code = "none"
  /\ cancels = 0
  /\ generic_requests \in UNION {GenericRequestFiles(n) : n \in 1..MaxLines}
  /\ \E b \in TerminalBatches(generic_requests) :
       /\ finished_batch = b.batch
       /\ provider_files = b.files
  /\ file_content = [is_None |-> TRUE, text |-> <<>>]
  /\ response_file_lines = <<>>
  /\ transform_pc = "download_batch"
  /\ semaphore = MAX_CONCURRENT_BATCH_OPERATIONS
  /\ api_key = DefaultKey
  /\ other_journals = NoJournals
  /\ NoAppends
  /\ paths = NoPaths

NextTransform ==
  \/ DownloadBatch
  \/ ResponseFileFromResponses

SpecTransform == InitTransform /\ [][NextTransform]_vars


(* ------------------------ download tasks and semaphore ----------------- *)

\* The positions at which a download task waits to enter an `async with` of
\* the semaphore: line 913 of download_batch and line 904 of delete_file,
\* called from lines 924, 925, 936 or 942 inside the block of line 913, or
\* from lines 989 and 990 outside it.
AcquirePoints ==
  {"download_batch", "delete_failed_input", "delete_failed_error", "delete_only_input",
   "delete_input", "delete_output"}

\* The position of a task suspended in the provider call that follows the
\* acquire point.
InCall ==
  [download_batch |-> "content",
   delete_failed_input |-> "deleting_failed_input",
   delete_failed_error |-> "deleting_failed_error",
   delete_only_input |-> "deleting_only_input",
   delete_input |-> "deleting_input",
   delete_output |-> "deleting_output"]

\* The provider call a task is suspended in.
CallOf ==
  [content |-> "content",
   deleting_failed_input |-> "delete_input",
   deleting_failed_error |-> "delete_error",
   deleting_only_input |-> "delete_input",
   deleting_input |-> "delete_input",
   deleting_output |-> "delete_output"]

\* The permits of the semaphore a download task holds at a position.
Held(position) ==
  CASE position \in {"content", "delete_failed_input", "delete_failed_error",
                     "delete_only_input", "deleting_input", "deleting_output"} -> 1
    [] position \in {"deleting_failed_input", "deleting_failed_error",
                     "deleting_only_input"} -> 2
    [] OTHER -> 0

\* Another task waits for a permit.
Queued(id) ==
  \E other \in BatchIds \ {id} : download_task[other] \in AcquirePoints

RECURSIVE Arrive(_, _, _, _)
RECURSIVE Enter(_, _, _, _)
\* A task takes a permit at an acquire point and runs to its next suspension,
\* its return or its exception; free is the number of free permits before.
Enter(batch, point, free, queued) ==
  CASE point = "download_batch" ->
         IF download_branch(batch) \in {"output", "error"}
           THEN {[at |-> "content", free |-> free - 1]}
         ELSE IF download_branch(batch) = "errors" /\ ~batch.errors
           THEN {[at |-> "AttributeError", free |-> free]}
         ELSE IF download_branch(batch) # "none" /\ delete_failed_batch_files
           THEN Arrive(batch, "delete_only_input", free - 1, queued)
         ELSE {[at |-> "None", free |-> free]}
    [] point = "delete_output" /\ ~batch.output_file_id ->
         {[at |-> "ValueError", free |-> free]}
    [] OTHER -> {[at |-> InCall[point], free |-> free - 1]}

\* A task arrives at an acquire point: without a free permit it waits; with
\* one it enters, unless other tasks wait already, in which case it enters
\* or queues behind them, depending on the asyncio version.
Arrive(batch, point, free, queued) ==
  IF free = 0 THEN {[at |-> point, free |-> 0]}
  ELSE Enter(batch, point, free, queued)
         \cup (IF queued THEN {[at |-> point, free |-> free]} ELSE {})

\* download_batch_to_response_file lines 971-992 once download_batch has
\* returned a content: the response file and the journal line are written,
\* then the files are deleted if so configured.
AfterBlock(batch, free, queued) ==
  IF delete_successful_batch_files
    THEN Arrive(batch, "delete_input", free, queued)
    ELSE {[at |-> "response_file", free |-> free]}

\* The task of batch id moves to one of the outcomes; persisted tells whether
\* lines 974-984 are run on the way.
Moves(id, outcomes, persisted) ==
  LET batch == BatchObject(id, provider[id])
  IN \E o \in outcomes :
       /\ download_task' = [download_task EXCEPT ![id] = o.at]
       /\ semaphore' = o.free
       /\ calls' = IF o.at \in DOMAIN CallOf
                     THEN calls \cup {[op |-> CallOf[o.at], id |-> id,
                                       permits |-> Held(o.at)]}
                     ELSE calls
       /\ IF persisted
            THEN /\ response_files' =
                      response_files
                        \cup {request_file_to_response_file(request_file_name(id))}
                 /\ downloaded_batch_objects_file' =
                      Append(downloaded_batch_objects_file, batch)
            ELSE UNCHANGED <<response_files, downloaded_batch_objects_file>>
       /\ tracker' = IF o.at = "response_file"
                       THEN mark_as_downloaded(tracker, batch) ELSE tracker
       /\ IF o.at \in {"AttributeError", "ValueError"}
            THEN Raise(o.at)
            ELSE UNCHANGED <<pc, result>>
       /\ UNCHANGED <<submitted_batch_objects_file, provider, config, paths, credentials, appends, transformer,
                      cancellation, run, scan, submit_task, status_tasks>>

\* Line 874: a download task made by the gather starts to run and arrives at
\* line 913.
StartDownload(id) ==
  /\ result = "running" /\ pc = "download"
  /\ download_task[id] = "start"
  /\ Moves(id, Arrive(BatchObject(id, provider[id]), "download_batch", semaphore,
                      Queued(id)), FALSE)

\* A download task that waits at an acquire point gets a permit.
AcquirePermit(id) ==
  /\ result = "running" /\ pc = "download"
  /\ download_task[id] \in AcquirePoints
  /\ semaphore > 0
  /\ Moves(id, Enter(BatchObject(id, provider[id]), download_task[id], semaphore,
                     Queued(id)), FALSE)

\* The provider answers the call a download task is suspended in; the task
\* releases the permits of the blocks it leaves and runs on.
CallReturns(id) ==
  LET batch == BatchObject(id, provider[id])
      at == download_task[id]
  IN /\ result = "running" /\ pc = "download"
     /\ at \in DOMAIN CallOf
     /\ CASE at = "content" ->
               IF download_branch(batch) = "error" /\ delete_failed_batch_files
                 THEN Moves(id, Arrive(batch, "delete_failed_input", semaphore,
                                       Queued(id)), FALSE)
                 ELSE Moves(id, AfterBlock(batch, semaphore + 1, Queued(id)), TRUE)
          [] at = "deleting_failed_input" ->
               Moves(id, Arrive(batch, "delete_failed_error", semaphore + 1,
                                Queued(id)), FALSE)
          [] at = "deleting_failed_error" ->
               Moves(id, AfterBlock(batch, semaphore + 2, Queued(id)), TRUE)
          [] at = "deleting_only_input" ->
               Moves(id, {[at |-> "None", free |-> semaphore + 2]}, FALSE)
          [] at = "deleting_input" ->
               Moves(id, Arrive(batch, "delete_output", semaphore + 1, Queued(id)),
                     FALSE)
          [] at = "deleting_output" ->
               Moves(id, {[at |-> "response_file", free |-> semaphore + 1]}, FALSE)

\* One run on a fresh working directory of a manager whose semaphore has
\* Permits permits.
InitSemaphore ==
  /\ submitted_batch_objects_file = <<>>
  /\ downloaded_batch_objects_file = <<>>
  /\ response_files = {}
  /\ provider = [b \in BatchIds |-> NoBatch]
  /\ request_files = RequestFiles
  /\ requests = [f \in RequestFiles |->
                   [n_requests |-> NReq, file_content_size |-> MinFileContentSize(NReq)]]
  /\ delete_successful_batch_files \in BOOLEAN
  /\ delete_failed_batch_files \in BOOLEAN
  /\ tracker = [BatchStatusTracker EXCEPT !.unsubmitted_request_files = request_files]
  /\ run = 1
  /\ pc = "track_downloaded"
  /\ scan = [line |-> 1, call |-> "mark_as_submitted"]
  /\ submit_task = [f \in RequestFiles |-> "none"]
  /\ status_tasks = {}
  /\ download_task = [b \in BatchIds |-> "none"]
  /\ result = "running"
  /\ calls = {}
  /\ cancelled_batch_objects_file = <<>>
  /\ cancel_task = [b \in BatchIds |-> "none"]
  /\ exit_code = "none"
  /\ cancels = 0
  /\ NoTransform
  /\ semaphore = Permits
  /\ api_key = DefaultKey
  /\ other_journals = NoJournals
  /\ NoAppends
  /\ paths = NoPaths

NextSemaphore ==
  \/ TrackDownloadedEnd
  \/ TrackSubmittedEnd
  \/ \E f \in RequestFiles : UploadBatchFile(f)
  \/ \E f \in RequestFiles : WaitForProcessing(f)
  \/ \E f \in RequestFiles : CreateBatch(f)
  \/ \E f \in RequestFiles : SubmitBatch(f)
  \/ SubmitGather
  \/ PollCycle
  \/ \E id \in BatchIds : CheckBatchStatus(id)
  \/ StatusGather
  \/ \E id \in BatchIds : StartDownload(id)
  \/ \E id \in BatchIds : AcquirePermit(id)
  \/ \E id \in BatchIds : CallReturns(id)
  \/ DownloadGather
  \/ Sleep
  \/ PollEnd

SpecSemaphore == InitSemaphore /\ [][NextSemaphore]_vars


(* ------------------- one working directory, several credentials -------- *)

\* The credential other than k.
OtherKey(k) == CHOOSE j \in ApiKeys : j # k

\* Lines 724-727: the downloaded journals of the working directory, those of
\* every credential, in the order the set of glob's result is iterated in.
downloaded_batch_object_files ==
  {downloaded_batch_objects_file \o other_journals[OtherKey(api_key)].downloaded,
   other_journals[OtherKey(api_key)].downloaded \o downloaded_batch_objects_file}

RECURSIVE track_already_downloaded_batches(_, _, _)
\* Lines 727-737 on the tracker t: the lines of the downloaded journals one
\* after the other, files being the response files that exist.
track_already_downloaded_batches(t, lines, files) ==
  IF lines = <<>> THEN [tracker |-> t, exception |-> "none"]
  ELSE LET batch_object == Head(lines)
           request_file == request_file_name(batch_object.id)
       IN IF /\ request_file \in t.unsubmitted_request_files
             /\ request_file_to_response_file(request_file) \in files
            THEN track_already_downloaded_batches(
                   mark_as_downloaded(
                     mark_as_finished(
                       mark_as_submitted(t, request_file, batch_object),
                       batch_object),
                     batch_object),
                   Tail(lines), files)
            ELSE [tracker |-> t, exception |-> "AssertionError"]

\* Faulty variant: only the downloaded journal of the run's own credential
\* is read.
TrackAlreadyDownloadedBatches_OwnKeyOnly ==
  /\ result = "running" /\ pc = "track_downloaded"
  /\ LET scanned == track_already_downloaded_batches(
                      tracker, downloaded_batch_objects_file, response_files)
     IN /\ tracker' = scanned.tracker
        /\ IF scanned.exception = "none"
             THEN /\ pc' = "track_submitted"
                  /\ scan' = [line |-> 1, call |-> "retrieve_batch"]
                  /\ UNCHANGED result
             ELSE Raise(scanned.exception) /\ UNCHANGED scan
  /\ UNCHANGED <<disk, provider, config, paths, credentials, appends, transformer, semaphore,
                 cancellation, run, submit_task, status_tasks, download_task, calls>>

\* track_already_downloaded_batches as a whole (it has no suspension point).
TrackAlreadyDownloadedBatches ==
  /\ result = "running" /\ pc = "track_downloaded"
  /\ \E lines \in downloaded_batch_object_files :
       LET scanned == track_already_downloaded_batches(tracker, lines, response_files)
       IN /\ tracker' = scanned.tracker
          /\ IF scanned.exception = "none"
               THEN /\ pc' = "track_submitted"
                    /\ scan' = [line |-> 1, call |-> "retrieve_batch"]
                    /\ UNCHANGED result
               ELSE Raise(scanned.exception) /\ UNCHANGED scan
  /\ UNCHANGED <<disk, provider, config, paths, credentials, appends, transformer, semaphore,
                 cancellation, run, submit_task, status_tasks, download_task, calls>>

\* The process is started again on the working directory with the credential
\* k, after the run has ended or after it was stopped where it stands: the
\* manager of the new run names its journals after k (lines 491-496).
RestartWithKey(k) ==
  /\ run < MaxKeyRuns
  /\ run' = run + 1
  /\ NewRun
  /\ api_key' = k
  /\ IF k = api_key
       THEN UNCHANGED <<other_journals, submitted_batch_objects_file,
                        downloaded_batch_objects_file>>
       ELSE /\ submitted_batch_objects_file' = other_journals[k].submitted
            /\ downloaded_batch_objects_file' = other_journals[k].downloaded
            /\ other_journals' =
                 [other_journals EXCEPT
                    ![api_key] = [submitted |-> submitted_batch_objects_file,
                                  downloaded |-> downloaded_batch_objects_file],
                    ![k] = [submitted |-> <<>>, downloaded |-> <<>>]]
  /\ UNCHANGED <<response_files, provider, config, paths, appends, transformer,
                 semaphore, cancelled_batch_objects_file, cancels>>

\* A working directory with one request file, first used with DefaultKey.
InitCredentials ==
  /\ submitted_batch_objects_file = <<>>
  /\ downloaded_batch_objects_file = <<>>
  /\ response_files = {}
  /\ provider = [b \in BatchIds |-> NoBatch]
  /\ request_files = {<<"requests", "0.jsonl">>}
  /\ requests = [f \in RequestFiles |->
                   [n_requests |-> NReq, file_content_size |-> MinFileContentSize(NReq)]]
  /\ delete_successful_batch_files \in BOOLEAN
  /\ delete_failed_batch_files \in BOOLEAN
  /\ tracker = [BatchStatusTracker EXCEPT !.unsubmitted_request_files = request_files]
  /\ run = 1
  /\ pc = "track_downloaded"
  /\ scan = [line |-> 1, call |-> "mark_as_submitted"]
  /\ submit_task = [f \in RequestFiles |-> "none"]
  /\ status_tasks = {}
  /\ download_task = [b \in BatchIds |-> "none"]
  /\ result = "running"
  /\ calls = {}
  /\ cancelled_batch_objects_file = <<>>
  /\ cancel_task = [b \in BatchIds |-> "none"]
  /\ exit_code = "none"
  /\ cancels = 0
  /\ NoTransform
  /\ semaphore = MAX_CONCURRENT_BATCH_OPERATIONS
  /\ api_key = DefaultKey
  /\ other_journals = NoJournals
  /\ NoAppends
  /\ paths = NoPaths

NextCredentials ==
  \/ TrackAlreadyDownloadedBatches
  \/ TrackSubmittedLine
  \/ TrackSubmittedEnd
  \/ \E f \in RequestFiles : UploadBatchFile(f)
  \/ \E f \in RequestFiles : WaitForProcessing(f)
  \/ \E f \in RequestFiles : CreateBatch(f)
  \/ \E f \in RequestFiles : SubmitBatch(f)
  \/ SubmitGather
  \/ PollCycle
  \/ \E id \in BatchIds : CheckBatchStatus(id)
  \/ StatusGather
  \/ \E id \in BatchIds : DownloadContent(id)
  \/ \E id \in BatchIds : DeleteFailedInput(id)
  \/ \E id \in BatchIds : DeleteFailedError(id)
  \/ \E id \in BatchIds : DownloadNothing(id)
  \/ \E id \in BatchIds : DeleteOnlyInput(id)
  \/ \E id \in BatchIds : DeleteInput(id)
  \/ \E id \in BatchIds : DeleteOutput(id)
  \/ DownloadGather
  \/ Sleep
  \/ PollEnd
  \/ \E k \in ApiKeys : RestartWithKey(k)

SpecCredentials == InitCredentials /\ [][NextCredentials]_vars

(* ------------------ journal appends, statement by statement ------------ *)

\* The statements of the coroutine of task t.
StatementsOf(t) ==
  IF t \in SubmitTasks THEN submit_batch_statements
  ELSE IF t \in DownloadTasks THEN download_statements
  ELSE cancel_statements

\* The statement task t executes next: the one after its last, the calls of
\* delete_file (lines 988-990) only if delete_successful_batch_files, and
\* cancel_batches without a submitted journal nothing but the exit (line 624).
NextStatement(t) ==
  LET statements == StatementsOf(t)
      i == CHOOSE k \in 1..Len(statements) : statements[k] = statement[t]
  IN IF t \in DownloadTasks /\ statement[t] = "flush" /\ ~delete_successful_batch_files
       THEN "returned"
     ELSE IF t = CancelTask /\ statement[t] = "none" /\ journal_text.submitted = <<>>
       THEN "os._exit"
     ELSE statements[i + 1]

\* The journal task t appends to and the batch it appends.
JournalOf(t) == IF t \in SubmitTasks THEN "submitted" ELSE "downloaded"

\* The journals after task t has executed the statement: json.dump writes the
\* record (lines 613, 982), f.write the newline (lines 614, 983), os.rename
\* moves the submitted journal to .cancelled (lines 642-644).
Written(t, executed) ==
  CASE executed = "json.dump" ->
         [journal_text EXCEPT ![JournalOf(t)] =
            Append(@, [id |-> <<t[2], run>>, piece |-> "record"])]
    [] executed = "write" ->
         [journal_text EXCEPT ![JournalOf(t)] =
            Append(@, [id |-> <<t[2], run>>, piece |-> "newline"])]
    [] executed = "os.rename" ->
         [journal_text EXCEPT !.cancelled = journal_text.submitted,
                              !.submitted = <<>>]
    [] OTHER -> journal_text

\* The event loop executes the next statement of a submit or a download task:
\* a task that is not suspended runs on, no other task runs before it is
\* suspended or has returned. The download tasks are made when the gather of
\* the submit tasks has returned (lines 778, 871-874).
Execute(t) ==
  /\ t \in SubmitTasks \cup DownloadTasks
  /\ statement[CancelTask] = "none"
  /\ running \in {NoTask, t}
  /\ statement[t] # "returned"
  /\ t \in DownloadTasks =>
       \A u \in SubmitTasks : statement[u] = "returned"
  /\ LET executed == NextStatement(t)
     IN /\ statement' = [statement EXCEPT ![t] = executed]
        /\ journal_text' = Written(t, executed)
        /\ running' = IF executed \in SuspensionPoints \cup {"returned"}
                        THEN NoTask ELSE t
  /\ UNCHANGED <<disk, provider, config, paths, credentials, transformer, semaphore,
                 cancellation, tracker, run, pc, scan, submit_task, status_tasks,
                 download_task, result, calls>>

\* cancel_batches in a process of its own, started when the run has ended or
\* was stopped at a suspension point.
CancelBatches ==
  /\ running = NoTask
  /\ statement[CancelTask] # "os._exit"
  /\ LET executed == NextStatement(CancelTask)
     IN /\ statement' = [statement EXCEPT ![CancelTask] = executed]
        /\ journal_text' = Written(CancelTask, executed)
  /\ UNCHANGED <<disk, provider, config, paths, credentials, transformer, semaphore,
                 cancellation, tracker, run, pc, scan, submit_task, status_tasks,
                 download_task, result, calls, running>>

\* A manager with both request files, none of them submitted.
InitJournal ==
  /\ Init
  /\ request_files = RequestFiles
  /\ ~delete_failed_batch_files

NextJournal ==
  \/ \E t \in SubmitTasks \cup DownloadTasks : Execute(t)
  \/ CancelBatches

SpecJournal == InitJournal /\ [][NextJournal]_vars

(* ---------------------------- path conversion -------------------------- *)

\* request_file_to_response_file is called with the i-th request file.
RequestFileToResponseFile(i) ==
  /\ paths.response_file[i] = <<>>
  /\ paths' = [paths EXCEPT !.response_file[i] =
                 request_file_to_response_file_path(paths.request_file[i],
                                                    paths.working_dir)]
  /\ UNCHANGED <<disk, provider, config, credentials, transformer, semaphore,
                 cancellation, tracker, run, pc, scan, submit_task, status_tasks,
                 download_task, result, calls, running, statement, journal_text>>

\* response_file_to_request_file is called with what the first call returned.
ResponseFileToRequestFile(i) ==
  /\ paths.response_file[i] \notin {<<>>, IndexError}
  /\ paths.round_trip[i] = <<>>
  /\ paths' = [paths EXCEPT !.round_trip[i] =
                 response_file_to_request_file_path(paths.response_file[i],
                                                    paths.working_dir)]
  /\ UNCHANGED <<disk, provider, config, credentials, transformer, semaphore,
                 cancellation, tracker, run, pc, scan, submit_task, status_tasks,
                 download_task, result, calls, running, statement, journal_text>>

\* Two request files requests_<suffix> of one working directory.
InitPaths ==
  /\ submitted_batch_objects_file = <<>>
  /\ downloaded_batch_objects_file = <<>>
  /\ response_files = {}
  /\ provider = [b \in BatchIds |-> NoBatch]
  /\ request_files = {}
  /\ requests = [f \in RequestFiles |->
                   [n_requests |-> NReq, file_content_size |-> MinFileContentSize(NReq)]]
  /\ delete_successful_batch_files = FALSE
  /\ delete_failed_batch_files = FALSE
  /\ tracker = BatchStatusTracker
  /\ run = 1
  /\ pc = "track_downloaded"
  /\ scan = [line |-> 1, call |-> "mark_as_submitted"]
  /\ submit_task = [f \in RequestFiles |-> "none"]
  /\ status_tasks = {}
  /\ download_task = [b \in BatchIds |-> "none"]
  /\ result = "running"
  /\ calls = {}
  /\ cancelled_batch_objects_file = <<>>
  /\ cancel_task = [b \in BatchIds |-> "none"]
  /\ exit_code = "none"
  /\ cancels = 0
  /\ NoTransform
  /\ semaphore = MAX_CONCURRENT_BATCH_OPERATIONS
  /\ api_key = DefaultKey
  /\ other_journals = NoJournals
  /\ NoAppends
  /\ \E working_dir \in WorkingDirs, suffix1, suffix2 \in Suffixes :
       paths = [NoPaths EXCEPT
                  !.working_dir = working_dir,
                  !.suffix = <<suffix1, suffix2>>,
                  !.request_file = <<RequestFilePath(working_dir, suffix1),
                                     RequestFilePath(working_dir, suffix2)>>]

NextPaths ==
  \/ \E i \in 1..2 : RequestFileToResponseFile(i)
  \/ \E i \in 1..2 : ResponseFileToRequestFile(i)

SpecPaths == InitPaths /\ [][NextPaths]_vars

(* ------------------------------ properties ----------------------------- *)

\* The batch IDs the tracker of the current run holds.
Tracked ==
  tracker.submitted_batch_ids \cup tracker.finished_batch_ids
    \cup tracker.downloaded_batch_ids

\* The request files the lines of a journal reference.
JournalFiles(journal) ==
  {request_file_name(journal[i].id) : i \in 1..Len(journal)}

\* The polling loop of the run has ended and line 890 was evaluated: no
\* provider call failed and no other exception was raised.
LoopExited == result \in {"returned", "RuntimeError"}

\* The download task of the batch has written the response file and the
\* journal line in the current run.
PersistedInRun(id) ==
  download_task[id] \in {"delete_input", "delete_output", "response_file"}

\* C1 (as claimed): when the polling loop has ended without a failed provider
\* call, no batch is left in finished_batch_ids and none in
\* submitted_batch_ids: every batch retrieved with a terminal status, whatever
\* the status and whether or not it has an output or error file, is in
\* downloaded_batch_ids.
C1_EveryTerminalBatchDownloaded ==
  LoopExited =>
    /\ tracker.finished_batch_ids = {}
    /\ tracker.submitted_batch_ids = {}
    /\ \A id \in BatchIds :
         download_task[id] # "none" => id \in tracker.downloaded_batch_ids

\* C1 (amended): when the polling loop has ended without a failed provider
\* call, submitted_batch_ids is empty and every batch retrieved with a
\* terminal status in the run is in downloaded_batch_ids if it is completed
\* with an output file or failed with an error file, and is left in
\* finished_batch_ids otherwise; every batch submitted in the run is one of
\* them.
C1_TerminalBatchDownloadedIfContent ==
  LoopExited =>
    /\ tracker.submitted_batch_ids = {}
    /\ \A id \in BatchIds :
         download_task[id] # "none" =>
           IF download_branch(BatchObject(id, provider[id])) \in {"output", "error"}
             THEN id \in tracker.downloaded_batch_ids
             ELSE id \in tracker.finished_batch_ids
    /\ \A f \in request_files :
         submit_task[f] = "done" => download_task[<<f, run>>] # "none"

\* C1 witness: the loop has ended with one batch downloaded and another, which
\* had nothing to download, left in finished_batch_ids.
C1_Witness ==
  /\ LoopExited
  /\ \E id \in tracker.downloaded_batch_ids : download_task[id] = "response_file"
  /\ \E id \in tracker.finished_batch_ids : download_task[id] = "None"

\* Every request file was restored from the downloaded journal by the resume
\* scan of the current run: the run started on a working directory in which
\* every request file had a downloaded-journal line and a response file.
AllRestored ==
  /\ request_files # {}
  /\ pc \notin {"track_downloaded", "exited"}
  /\ tracker.unsubmitted_request_files = {}
  /\ \A f \in request_files :
       \E id \in tracker.downloaded_batch_ids :
         request_file_name(id) = f /\ download_task[id] = "none"

\* C2: a run started on a working directory in which every request file has a
\* downloaded-journal line and a response file, and carried through to the
\* return of poll_and_process_batches, has issued no provider call.
C2_ResumedRunIssuesNoProviderCall ==
  (AllRestored /\ result = "returned") => calls = {}

\* The submitted-journal lines written by an earlier run for request file f.
JournalledBefore(f) ==
  {submitted_batch_objects_file[i].id : i \in
     {j \in 1..Len(submitted_batch_objects_file) :
        /\ request_file_name(submitted_batch_objects_file[j].id) = f
        /\ submitted_batch_objects_file[j].id[2] < run}}

\* Request file f had a downloaded-journal line when the current run started.
DownloadedBefore(f) ==
  \E i \in 1..Len(downloaded_batch_objects_file) :
    /\ request_file_name(downloaded_batch_objects_file[i].id) = f
    /\ ~PersistedInRun(downloaded_batch_objects_file[i].id)

\* The resume scan of the run has been completed.
ScanCompleted ==
  \/ pc \in {"submit", "poll", "check_batch_status", "download", "sleep"}
  \/ pc = "done" /\ LoopExited

\* C3: in a run started with a submitted-journal line and no downloaded-journal
\* line for a request file, no upload and no create-batch call is issued for
\* that file; once the resume scan is completed the journalled batch was
\* retrieved and is tracked, in submitted_batch_ids until it is polled, and
\* every poll cycle that finds it in submitted_batch_ids polls it.
C3_RestartResumesJournalledBatch ==
  \A f \in request_files : \A id \in JournalledBefore(f) :
    (pc # "exited" /\ ~DownloadedBefore(f)) =>
      /\ \A op \in {"upload", "wait_for_processing", "create"} :
           ~Called(op, <<f, run>>)
      /\ submit_task[f] = "none"
      /\ ScanCompleted =>
           /\ Called("retrieve_batch", id)
           /\ id \in Tracked
           /\ f \notin tracker.unsubmitted_request_files
           /\ ~Called("check_batch_status", id) =>
                id \in tracker.submitted_batch_ids
      /\ (pc \in {"check_batch_status", "download"}
            /\ id \in tracker.submitted_batch_ids) =>
           \/ id \in status_tasks
           \/ Called("check_batch_status", id)

\* C3 witness: a batch journalled by the first run is polled by the second run.
C3_Witness ==
  \E f \in request_files : \E id \in JournalledBefore(f) :
    /\ ~DownloadedBefore(f)
    /\ pc = "download"
    /\ Called("check_batch_status", id)
    /\ id \in tracker.finished_batch_ids

\* A downloaded-journal line references a request file whose response file
\* is absent.
ResponseFileMissing ==
  \E f \in JournalFiles(downloaded_batch_objects_file) :
    request_file_to_response_file(f) \notin response_files

\* C4: when the scan of the downloaded journals is completed, no provider call
\* was made and a request file has left unsubmitted_request_files for
\* downloaded_batch_ids if and only if a downloaded-journal line references it
\* and its response file exists; a run that finds a journalled request file
\* without its response file never gets past that scan, ends with the
\* assertion error and issues no upload and no create-batch call.
C4_ResumeScanOfDownloadedJournal ==
  /\ (result = "running" /\ pc = "track_submitted" /\ scan.line = 1) =>
       /\ calls = {}
       /\ tracker.submitted_batch_ids = {} /\ tracker.finished_batch_ids = {}
       /\ \A f \in request_files :
            (/\ f \notin tracker.unsubmitted_request_files
             /\ \E id \in tracker.downloaded_batch_ids : request_file_name(id) = f)
            <=> (/\ f \in JournalFiles(downloaded_batch_objects_file)
                 /\ request_file_to_response_file(f) \in response_files)
  /\ (ResponseFileMissing /\ pc # "exited") =>
       /\ pc = "track_downloaded" \/ result = "AssertionError"
       /\ \A c \in calls : c.op \notin {"upload", "wait_for_processing", "create"}

\* C4 witness: the scan restored one request file and then aborted on a journal
\* line whose response file is absent.
C4_Witness ==
  /\ result = "AssertionError"
  /\ ResponseFileMissing
  /\ tracker.downloaded_batch_ids # {}
  /\ tracker.unsubmitted_request_files # {}

\* C5: submitted_batch_ids, finished_batch_ids and downloaded_batch_ids are
\* pairwise disjoint in every state.
C5_TrackerSetsDisjoint ==
  /\ tracker.submitted_batch_ids \cap tracker.finished_batch_ids = {}
  /\ tracker.finished_batch_ids \cap tracker.downloaded_batch_ids = {}
  /\ tracker.submitted_batch_ids \cap tracker.downloaded_batch_ids = {}

\* C5 witness: during a download phase one batch is in finished_batch_ids while
\* another is still in submitted_batch_ids.
C5_Witness ==
  /\ pc = "download"
  /\ tracker.submitted_batch_ids # {}
  /\ tracker.finished_batch_ids # {}

\* C6: within a run a batch ID enters downloaded_batch_ids only from
\* finished_batch_ids and finished_batch_ids only from submitted_batch_ids,
\* and never moves back: it does not leave downloaded_batch_ids, leaves
\* finished_batch_ids only for downloaded_batch_ids and never re-enters
\* submitted_batch_ids.
C6_BatchMovesForwardOnly ==
  [][run' = run =>
       \A id \in BatchIds :
         /\ (id \in tracker'.downloaded_batch_ids /\ id \notin tracker.downloaded_batch_ids)
              => id \in tracker.finished_batch_ids
         /\ (id \in tracker'.finished_batch_ids /\ id \notin tracker.finished_batch_ids)
              => id \in tracker.submitted_batch_ids
         /\ id \in tracker.downloaded_batch_ids => id \in tracker'.downloaded_batch_ids
         /\ id \in tracker.finished_batch_ids =>
              id \in tracker'.finished_batch_ids \cup tracker'.downloaded_batch_ids
         /\ id \in tracker.finished_batch_ids \cup tracker.downloaded_batch_ids =>
              id \notin tracker'.submitted_batch_ids]_vars

\* C6 witness: one batch reached downloaded_batch_ids through the resume scan
\* and another through the polling loop of the same run.
C6_Witness ==
  /\ \E id \in tracker.downloaded_batch_ids : download_task[id] = "none"
  /\ \E id \in tracker.downloaded_batch_ids : download_task[id] = "response_file"

\* The lifecycle buckets that hold a batch of request file f.
Buckets(f) ==
  {<<"submitted", id>> : id \in {b \in tracker.submitted_batch_ids : request_file_name(b) = f}}
  \cup {<<"finished", id>> : id \in {b \in tracker.finished_batch_ids : request_file_name(b) = f}}
  \cup {<<"downloaded", id>> : id \in {b \in tracker.downloaded_batch_ids : request_file_name(b) = f}}

\* C7: every request file of the run either is in unsubmitted_request_files and
\* has no tracked batch, or is not and has exactly one batch ID in exactly one
\* of the three sets; no other file has a tracked batch.
C7_RequestFileInOneBucket ==
  /\ \A f \in request_files :
       IF f \in tracker.unsubmitted_request_files
         THEN Buckets(f) = {}
         ELSE Cardinality(Buckets(f)) = 1
  /\ \A f \in RequestFiles \ request_files : Buckets(f) = {}

\* C7 witness: in the submission phase of a restarted run one request file has
\* the batch resumed from the submitted journal, the other is still
\* unsubmitted.
C7_Witness ==
  /\ pc = "submit"
  /\ run > 1
  /\ tracker.unsubmitted_request_files # {}
  /\ \E id \in tracker.submitted_batch_ids : id[2] < run

\* C8: n_finished_requests + n_downloaded_requests <= n_total_requests in every
\* state.
C8_FinishedPlusDownloadedAtMostTotal ==
  tracker.n_finished_requests + tracker.n_downloaded_requests
    <= tracker.n_total_requests

\* C9: within a run no step takes n_downloaded_requests to a smaller value.
C9_DownloadedRequestsNeverDecrease ==
  [][run' = run =>
       tracker'.n_downloaded_requests >= tracker.n_downloaded_requests]_vars

\* C9 witness: n_downloaded_requests was increased by the resume scan and again
\* by a download.
C9_Witness ==
  /\ tracker.n_downloaded_requests >= 2
  /\ \E id \in tracker.downloaded_batch_ids : download_task[id] = "none"
  /\ \E id \in tracker.downloaded_batch_ids : download_task[id] = "response_file"
  /\ pc = "done"

\* C10: when the polling loop has ended without a failed provider call, the
\* RuntimeError is raised if and only if downloaded_batch_ids is empty, the
\* batches restored by the resume scan counting as downloaded.
C10_RuntimeErrorIffNothingDownloaded ==
  LoopExited =>
    (result = "RuntimeError" <=> tracker.downloaded_batch_ids = {})

\* C10 witness: a run that downloaded nothing itself returned normally, its
\* downloaded_batch_ids holding a batch restored from the downloaded journal
\* while another batch ended without a response file.
C10_Witness ==
  /\ result = "returned"
  /\ response_files_filter = {}
  /\ tracker.downloaded_batch_ids # {}
  /\ tracker.finished_batch_ids # {}

\* C11: a run that has a batch in downloaded_batch_ids and in which no provider
\* call failed and no resume assertion failed does not end with an exception,
\* whatever terminal state the other batches reached: poll_and_process_batches
\* returns.
C11_BatchFailureNotFatal ==
  (/\ pc = "done"
   /\ result \notin {"ProviderError", "AssertionError"}
   /\ tracker.downloaded_batch_ids # {}) => result = "returned"

\* C12: a retrieve call that fails in a poll cycle, or a download call that
\* fails while no delete call is pending, does not end the run.
C12_PollingSurvivesProviderError ==
  [][/\ (result = "running" /\ pc = "check_batch_status") => result' = "running"
     /\ (/\ result = "running" /\ pc = "download"
         /\ \A id \in BatchIds :
              download_task[id] \in {"none", "start", "None", "response_file"})
          => result' # "ProviderError"]_vars

\* C14: every provider call of the run was issued by a task that held at least
\* one permit of the manager's semaphore.
C14_EveryCallHoldsPermit == \A c \in calls : c.permits >= 1

\* The positions of a download task at which its next step is a delete_file
\* call, and the provider file that call deletes.
DeleteTarget ==
  [delete_failed_input |-> "delete_input", delete_failed_error |-> "delete_error",
   delete_only_input |-> "delete_input", delete_input |-> "delete_input",
   delete_output |-> "delete_output"]

\* This step is the return of a delete_file call of the download task of id.
DeleteReturned(id) ==
  /\ run' = run
  /\ download_task[id] \in DOMAIN DeleteTarget
  /\ download_task'[id] # download_task[id]

\* C15: a delete_file call for a batch that has content to download (completed
\* with an output file, failed with an error file) is made only after the
\* response file of the batch has been written in the run.
C15_DeleteAfterResponseFile ==
  [][\A id \in BatchIds :
       (/\ DeleteReturned(id)
        /\ download_branch(BatchObject(id, provider[id])) \in {"output", "error"})
         => PersistedInRun(id)]_vars

\* C16: a delete_file call is made for a batch only if the batch is completed
\* and delete_successful_batch_files is set, or the batch is failed, expired or
\* cancelled and delete_failed_batch_files is set, and no provider file of a
\* batch is deleted twice in a run.
C16_DeleteOnlyAsConfigured ==
  [][\A id \in BatchIds :
       DeleteReturned(id) =>
         /\ \/ provider[id].status = "completed" /\ delete_successful_batch_files
            \/ /\ provider[id].status \in {"failed", "expired", "cancelled"}
               /\ delete_failed_batch_files
         /\ ~Called(DeleteTarget[download_task[id]], id)]_vars

\* The requests of request file f exceed a limit of the provider: more than
\* 50,000 requests or a joined body of more than 200 MiB.
Oversize(f) ==
  \/ requests[f].n_requests > 50000
  \/ requests[f].file_content_size > 200 * 1024 * 1024

\* C13: for an oversize request file no upload and no create-batch call is
\* issued, no submitted-journal line is written and the file stays in
\* unsubmitted_request_files, so the submission phase never completes; the
\* ValueError is raised only for an oversize file, a file of exactly 50,000
\* requests and exactly 200 MiB is not refused.
C13_OversizeFileRejectedBeforeUpload ==
  /\ \A f \in request_files :
       Oversize(f) =>
         /\ \A op \in {"upload", "wait_for_processing", "create"} : ~Called(op, <<f, run>>)
         /\ f \notin JournalFiles(submitted_batch_objects_file)
         /\ f \in tracker.unsubmitted_request_files
         /\ pc \in {"track_downloaded", "track_submitted", "submit", "done"}
         /\ pc = "done" => result \in {"ValueError", "ProviderError"}
  /\ result = "ValueError" =>
       \E f \in request_files : Oversize(f) /\ submit_task[f] = "start"

\* C13 witness: the run was ended by an oversize file after a file of exactly
\* 50,000 requests and exactly 200 MiB had been uploaded, created and
\* journalled.
C13_Witness ==
  /\ result = "ValueError"
  /\ \E f \in request_files :
       /\ requests[f].n_requests = 50000
       /\ requests[f].file_content_size = 200 * 1024 * 1024
       /\ f \in JournalFiles(submitted_batch_objects_file)
       /\ f \notin tracker.unsubmitted_request_files

\* C17: in a cancellation every line of the submitted journal has its
\* cancel_batch task; a task that has retrieved its batch has issued the
\* cancel call if and only if the batch was not retrieved as completed, a
\* task that has not retrieved it has issued none; when the gather has
\* returned every task has returned 0 or -1, a failed cancel call of one
\* having stopped no other.
C17_CancelCallPerUncompletedBatch ==
  /\ pc = "cancel_batches" =>
       \A id \in JournalIds(submitted_batch_objects_file) : cancel_task[id] # "none"
  /\ pc \in {"cancel_batches", "cancel_exited"} =>
       \A id \in BatchIds :
         /\ cancel_task[id] \in {"none", "start"} => ~Called("cancel", id)
         /\ cancel_task[id] \in {"cancelling", "0", "-1"} =>
              /\ Called("retrieve_batch", id)
              /\ Called("cancel", id) <=> provider[id].status # "completed"
         /\ (result = "os._exit" /\ cancel_task[id] # "none") =>
              cancel_task[id] \in {"0", "-1"}

\* C17 witness: a cancellation has ended in which the cancel call of one batch
\* failed, that of another succeeded.
C17_Witness ==
  /\ pc = "cancel_exited" /\ result = "os._exit"
  /\ \E id \in BatchIds : cancel_task[id] = "-1" /\ Called("cancel", id)
  /\ \E id \in BatchIds :
       /\ cancel_task[id] = "0" /\ Called("cancel", id)
       /\ provider[id].status = "cancelling"

\* C18: when the cancelling process has ended, whatever its provider calls
\* answered, os._exit(1) was called, no submitted journal is left and, if
\* there was one, the .cancelled journal exists.
C18_CancelRenamesAndExits ==
  pc = "cancel_exited" =>
    /\ exit_code = "1"
    /\ submitted_batch_objects_file = <<>>
    /\ (\E id \in BatchIds : cancel_task[id] # "none") =>
         cancelled_batch_objects_file # <<>>

\* C19: a run that follows a completed cancellation retrieves no batch of the
\* .cancelled journal and tracks none but those the downloaded journal
\* restores; when its submission phase has
\* ended, every request file with a downloaded-journal line was restored
\* without upload or create-batch call, and every other request file was
\* uploaded and submitted as a new batch of the run.
C19_RunAfterCancelIgnoresCancelledJournal ==
  (cancelled_batch_objects_file # <<>> /\ pc \notin {"cancel_batches", "cancel_exited"}) =>
    /\ \A id \in JournalIds(cancelled_batch_objects_file) :
         /\ id \in Tracked => id \in JournalIds(downloaded_batch_objects_file)
         /\ ~Called("retrieve_batch", id)
         /\ ~Called("check_batch_status", id)
    /\ pc = "poll" =>
         \A f \in request_files :
           IF DownloadedBefore(f)
             THEN /\ ~Called("upload", <<f, run>>) /\ ~Called("create", <<f, run>>)
                  /\ \E id \in tracker.downloaded_batch_ids : request_file_name(id) = f
             ELSE /\ Called("upload", <<f, run>>) /\ Called("create", <<f, run>>)
                  /\ <<f, run>> \in tracker.submitted_batch_ids
                  /\ <<f, run>> \in JournalIds(submitted_batch_objects_file)

\* C19 witness: the run after the cancellation has restored one request file
\* from the downloaded journal and submitted a new batch for the other, whose
\* earlier batch is in the .cancelled journal.
C19_Witness ==
  /\ pc = "poll"
  /\ \E f \in request_files : DownloadedBefore(f)
  /\ \E g \in request_files :
       /\ \E id \in JournalIds(cancelled_batch_objects_file) :
            request_file_name(id) = g /\ id # <<g, run>>
       /\ <<g, run>> \in tracker.submitted_batch_ids

\* C20: the response file written for a downloaded batch holds exactly one
\* GenericResponse for each line of the batch's request file, also when the
\* provider reported requests of a completed batch in the error file; for a
\* failed batch every response has response_errors and no response_message.
C20_OneResponsePerRequestLine ==
  transform_pc = "written" =>
    /\ Len(response_file_lines) = Len(generic_requests)
    /\ \A i \in DOMAIN generic_requests :
         \E k \in DOMAIN response_file_lines :
           response_file_lines[k].generic_request = generic_requests[i]
    /\ finished_batch.status = "failed" =>
         \A k \in DOMAIN response_file_lines :
           /\ ~response_file_lines[k].response_errors.is_None
           /\ response_file_lines[k].response_errors.list # <<>>
           /\ response_file_lines[k].response_message = "None"

\* C21: the custom_id made of a request's original_row_idx converts back to
\* that index, no downloaded line fails the lookup, and the GenericResponse
\* written for a line carries, unaltered, the request of the request file
\* whose custom_id the line echoes, its original_row_idx being int(custom_id).
C21_ResponseEchoesItsRequest ==
  /\ \A i \in DOMAIN generic_requests :
       int(create_api_specific_request(generic_requests[i]).custom_id) =
         generic_requests[i].original_row_idx
  /\ transform_pc # "KeyError"
  /\ \A k \in DOMAIN response_file_lines :
       \E i \in DOMAIN generic_requests :
         /\ file_content.text[k].custom_id =
              create_api_specific_request(generic_requests[i]).custom_id
         /\ response_file_lines[k].generic_request = generic_requests[i]
         /\ response_file_lines[k].generic_request.original_row_idx =
              int(file_content.text[k].custom_id)

\* C21 witness: a response file was written from fewer lines than the request
\* file has, one of them for a request with a row index of two digits that is
\* not the line of the same position in the request file.
C21_Witness ==
  /\ transform_pc = "written"
  /\ Len(response_file_lines) < Len(generic_requests)
  /\ \E k \in DOMAIN response_file_lines :
       /\ response_file_lines[k].generic_request.original_row_idx >= 10
       /\ response_file_lines[k].generic_request # generic_requests[k]

\* C22: the GenericResponse of a line with a status code other than 200 has
\* no response_message, one entry in response_errors, no token_usage and no
\* response_cost; a line with status code 200 has token_usage and
\* response_cost; response_errors is non-empty exactly for the lines that
\* failed (by status code or in parse_response_message); every line of the
\* downloaded file is transformed.
C22_FailedLineShape ==
  /\ \A k \in DOMAIN response_file_lines :
       LET line == file_content.text[k]
           response == response_file_lines[k]
       IN /\ line.status_code # 200 =>
               /\ response.response_message = "None"
               /\ ~response.response_errors.is_None
               /\ Len(response.response_errors.list) = 1
               /\ response.token_usage = "None"
               /\ response.response_cost = "None"
          /\ line.status_code = 200 =>
               /\ response.token_usage # "None"
               /\ response.response_cost # "None"
          /\ (~response.response_errors.is_None /\ response.response_errors.list # <<>>)
               <=> (line.status_code # 200 \/ line.content = "fails")
  /\ transform_pc = "written" => Len(response_file_lines) = Len(file_content.text)

\* C22 witness: a response file was written from a file that holds a line
\* with status code 200 and a line with another status code.
C22_Witness ==
  /\ transform_pc = "written"
  /\ \E k \in DOMAIN response_file_lines :
       /\ file_content.text[k].status_code = 200
       /\ response_file_lines[k].response_message = "message"
  /\ \E k \in DOMAIN response_file_lines :
       /\ file_content.text[k].status_code # 200
       /\ response_file_lines[k].token_usage = "None"

\* C23: a poll cycle at whose end a batch is still in submitted_batch_ids is
\* followed by the sleep of check_interval: the loop goes from the downloads
\* straight to the next cycle only when submitted_batch_ids is empty.
C23_SleepsWhileBatchSubmitted ==
  [][(pc = "download" /\ pc' = "poll") => tracker.submitted_batch_ids = {}]_vars

\* C24: a tracked batch last retrieved with a status of neither list is in
\* submitted_batch_ids, in no other set of the tracker, and no download was
\* started for it; the status tasks of a poll cycle are those of all of
\* submitted_batch_ids, so that it is retrieved again in the next cycle.
C24_UnknownStatusStaysSubmitted ==
  /\ [](\A id \in Tracked :
          provider[id].status \notin in_progress_statuses \cup finished_statuses =>
            /\ id \in tracker.submitted_batch_ids
            /\ download_task[id] = "none"
            /\ ~Called("content", id))
  /\ [][(pc = "poll" /\ pc' = "check_batch_status") =>
          status_tasks' = tracker.submitted_batch_ids]_vars

\* C24 witness: a batch retrieved with an unknown status in one poll cycle is
\* about to be retrieved in the next.
C24_Witness ==
  /\ pc = "check_batch_status"
  /\ \E id \in status_tasks :
       /\ provider[id].status = unknown_status
       /\ Called("check_batch_status", id)

\* Every request file had a downloaded-journal line when the current run
\* started.
AllDownloadedBefore ==
  /\ request_files # {}
  /\ \A f \in request_files : DownloadedBefore(f)

\* The batch had a downloaded-journal line when the current run started.
BatchDownloadedBefore(id) ==
  /\ id \in JournalIds(downloaded_batch_objects_file)
  /\ ~PersistedInRun(id)

\* C25: a run started after every request file was downloaded leaves the
\* journals and the response files as they are and issues no upload, create
\* or download call; any run uploads and creates a batch only for a request
\* file that had no line in a journal when it started, and downloads only a
\* batch that had no downloaded-journal line.
C25_RunDoesResidualWorkOnly ==
  /\ [](/\ AllDownloadedBefore =>
             \A c \in calls :
               c.op \notin {"upload", "wait_for_processing", "create", "content"}
        /\ \A c \in calls :
             /\ c.op \in {"upload", "wait_for_processing", "create"} =>
                  /\ JournalledBefore(request_file_name(c.id)) = {}
                  /\ ~DownloadedBefore(request_file_name(c.id))
             /\ c.op = "content" => ~BatchDownloadedBefore(c.id))
  /\ [][(AllDownloadedBefore /\ pc # "exited" /\ pc' # "exited") => disk' = disk]_vars

\* C25 witness: the second run has uploaded and submitted a request file that
\* had no journal line, and has downloaded the batch the first run had
\* journalled for the other.
C25_Witness ==
  /\ run = 2
  /\ \E g \in request_files :
       /\ JournalledBefore(g) = {}
       /\ Called("upload", <<g, run>>)
       /\ Called("create", <<g, run>>)
  /\ \E f \in request_files : \E id \in JournalledBefore(f) :
       /\ Called("content", id)
       /\ PersistedInRun(id)

\* The download tasks that have neither returned nor raised.
PendingDownloads ==
  {id \in BatchIds : download_task[id] \notin Returned \cup {"none"}}

\* C26: while the download tasks of a poll cycle run, they are never all
\* waiting for a permit of a semaphore that has none free, whatever the
\* statuses of the batches and the two delete settings.
C26_DownloadTasksNeverAllBlocked ==
  (pc = "download" /\ result = "running" /\ PendingDownloads # {}) =>
    \/ semaphore > 0
    \/ \E id \in PendingDownloads : download_task[id] \notin AcquirePoints

\* C27: a download task holds at most one permit of the semaphore, and none
\* when it waits for one.
C27_TaskHoldsAtMostOnePermit ==
  \A id \in BatchIds :
    /\ Held(download_task[id]) <= 1
    /\ download_task[id] \in AcquirePoints => Held(download_task[id]) = 0

\* The batches that exist at the provider for request file f.
ProviderBatches(f) ==
  {id \in BatchIds : request_file_name(id) = f /\ provider[id].status # "none"}

\* C28: over the runs on a working directory, stopped wherever they may be,
\* at most one batch exists at the provider for each request file, and no
\* upload or create-batch call is issued for a file that has one from an
\* earlier run.
C28_AtMostOneBatchPerRequestFile ==
  \A f \in RequestFiles :
    /\ Cardinality(ProviderBatches(f)) <= 1
    /\ (\E id \in ProviderBatches(f) : id[2] < run) =>
         /\ ~Called("upload", <<f, run>>)
         /\ ~Called("create", <<f, run>>)

\* C29: for a batch of the current run the create-batch call was preceded by
\* the upload call and the line of the submitted journal by the create-batch
\* call; every batch ID the tracker holds, in whichever of its three sets,
\* has a line in the submitted or in the downloaded journal.
C29_SubmissionWriteAhead ==
  /\ \A f \in RequestFiles :
       /\ Called("create", <<f, run>>) => Called("upload", <<f, run>>)
       /\ <<f, run>> \in JournalIds(submitted_batch_objects_file) =>
            Called("create", <<f, run>>)
  /\ \A id \in Tracked :
       id \in JournalIds(submitted_batch_objects_file)
                \cup JournalIds(downloaded_batch_objects_file)

\* C29 witness: a batch submitted in the current run is tracked and has its
\* journal line, another is tracked from the journal of an earlier run.
C29_Witness ==
  /\ \E f \in request_files :
       /\ <<f, run>> \in tracker.submitted_batch_ids
       /\ <<f, run>> \in JournalIds(submitted_batch_objects_file)
       /\ Called("create", <<f, run>>)
  /\ \E id \in Tracked : id[2] < run

\* C30: unless a response file is taken away from outside the manager, every
\* line of the downloaded journal references a request file whose response file
\* exists, in every state in which the run may be stopped; a batch is in
\* downloaded_batch_ids only if the journal has its line; and as long as no
\* journalled response file is missing, the scan of the downloaded journal
\* does not end with an AssertionError.
C30_DownloadedJournalHasResponseFile ==
  /\ [](\A id \in tracker.downloaded_batch_ids :
          id \in JournalIds(downloaded_batch_objects_file))
  /\ [][/\ (response_files \subseteq response_files' /\ ~ResponseFileMissing)
             => ~ResponseFileMissing'
        /\ (pc = "track_downloaded" /\ ~ResponseFileMissing)
             => result' # "AssertionError"]_vars

\* C30 witness: the second run restored a batch from the downloaded journal
\* and stands, for another batch, between the append of its journal line and
\* mark_as_downloaded, the response files of both in place.
C30_Witness ==
  /\ run = 2 /\ result = "running"
  /\ ~ResponseFileMissing
  /\ \E id \in tracker.downloaded_batch_ids : id[2] < run
  /\ \E id \in BatchIds :
       /\ download_task[id] \in {"delete_input", "delete_output"}
       /\ id \in JournalIds(downloaded_batch_objects_file)
       /\ id \notin tracker.downloaded_batch_ids

\* The lines of the downloaded journals of all credentials.
AllDownloadedLines ==
  downloaded_batch_objects_file \o other_journals[OtherKey(api_key)].downloaded

\* C31: over the downloaded journals of all credentials of the working
\* directory, each request file is referenced by at most one line; the scan of
\* the downloaded journals does not end with an AssertionError; and the
\* content of a batch is never requested when a downloaded journal has a
\* line for its request file.
C31_OneDownloadedLinePerRequestFile ==
  /\ [](\A i, j \in 1..Len(AllDownloadedLines) :
          request_file_name(AllDownloadedLines[i].id)
            = request_file_name(AllDownloadedLines[j].id) => i = j)
  /\ [][/\ pc = "track_downloaded" => result' # "AssertionError"
        /\ \A id \in BatchIds :
             (~Called("content", id) /\ Called("content", id)') =>
               request_file_name(id) \notin JournalFiles(AllDownloadedLines)]_vars

\* C31 witness: a run with one credential restores a request file from the
\* downloaded journal of the other credential, and its own submitted journal
\* has a line for a batch of that file.
C31_Witness ==
  /\ result = "running" /\ pc # "track_downloaded"
  /\ \E id \in tracker.downloaded_batch_ids :
       /\ id \in JournalIds(other_journals[OtherKey(api_key)].downloaded)
       /\ request_file_name(id) \in JournalFiles(submitted_batch_objects_file)

\* C32: a step in which a provider call fails changes neither the tracker nor
\* a journal nor a response file; and a request file whose submit task has not
\* got the answer of the create-batch call (the upload or the create-batch
\* call failed or has not returned) is in unsubmitted_request_files, with no
\* batch ID of the run tracked and no line of the run in the submitted journal.
C32_FailedCallChangesNothing ==
  /\ [][(result = "running" /\ result' = "ProviderError") =>
          /\ tracker' = tracker
          /\ submitted_batch_objects_file' = submitted_batch_objects_file
          /\ downloaded_batch_objects_file' = downloaded_batch_objects_file
          /\ response_files' = response_files]_vars
  /\ [](\A f \in RequestFiles :
          submit_task[f] \in {"start", "uploaded", "ready"} =>
            /\ f \in tracker.unsubmitted_request_files
            /\ <<f, run>> \notin Tracked
            /\ <<f, run>> \notin JournalIds(submitted_batch_objects_file))

\* C32 witness: the create-batch call of one request file has failed while
\* the batch of another file was already submitted.
C32_Witness ==
  /\ result = "ProviderError"
  /\ \E f \in request_files :
       /\ submit_task[f] = "ready"
       /\ Called("create", <<f, run>>)
       /\ f \in tracker.unsubmitted_request_files
  /\ tracker.submitted_batch_ids # {}

RECURSIVE FinishedRequestsOf(_)
\* completed + failed of request_counts, summed over the batches ids.
FinishedRequestsOf(ids) ==
  IF ids = {} THEN 0
  ELSE LET id == CHOOSE i \in ids : TRUE
       IN provider[id].completed + provider[id].failed
            + FinishedRequestsOf(ids \ {id})

\* C33: n_finished_requests equals the sum of completed + failed over the
\* batches in finished_batch_ids, after any number of poll cycles.
C33_FinishedRequestsOfFinishedBatches ==
  tracker.n_finished_requests = FinishedRequestsOf(tracker.finished_batch_ids)

\* C34: within a run n_finished_requests is never negative; a step takes it
\* to a smaller value only if it moves a batch from finished_batch_ids to
\* downloaded_batch_ids; such a step subtracts completed + failed of the batch
\* from n_finished_requests and adds the same to n_downloaded_requests; and no
\* step takes n_finished_requests + n_downloaded_requests to a smaller value.
C34_FinishedToDownloadedKeepsProgress ==
  /\ [](tracker.n_finished_requests >= 0)
  /\ [][run' = run =>
          /\ tracker'.n_finished_requests < tracker.n_finished_requests =>
               \E id \in tracker.finished_batch_ids :
                 id \in tracker'.downloaded_batch_ids
          /\ \A id \in tracker.finished_batch_ids :
               id \in tracker'.downloaded_batch_ids =>
                 /\ tracker'.n_finished_requests =
                      tracker.n_finished_requests - FinishedRequestsOf({id})
                 /\ tracker'.n_downloaded_requests =
                      tracker.n_downloaded_requests + FinishedRequestsOf({id})
          /\ tracker'.n_finished_requests + tracker'.n_downloaded_requests
               >= tracker.n_finished_requests + tracker.n_downloaded_requests]_vars

\* C34 witness: the download of a batch with a finished request has moved it to
\* downloaded_batch_ids while another batch is still in finished_batch_ids.
C34_Witness ==
  /\ \E id \in tracker.downloaded_batch_ids :
       /\ download_task[id] = "response_file"
       /\ FinishedRequestsOf({id}) > 0
  /\ tracker.finished_batch_ids # {}
  /\ tracker.n_downloaded_requests > 0

\* C35: for every tracker the manager reaches and every batch, mark_as_finished
\* of a batch whose ID is not in submitted_batch_ids and mark_as_downloaded of
\* a batch whose ID is not in finished_batch_ids return the tracker unchanged,
\* and applying either twice gives what applying it once gives.
C35_MarkGuardedAndIdempotent ==
  \A id \in BatchIds :
    LET batch_object == BatchObject(id, provider[id])
    IN /\ id \notin tracker.submitted_batch_ids =>
            mark_as_finished(tracker, batch_object) = tracker
       /\ id \notin tracker.finished_batch_ids =>
            mark_as_downloaded(tracker, batch_object) = tracker
       /\ mark_as_finished(mark_as_finished(tracker, batch_object), batch_object)
            = mark_as_finished(tracker, batch_object)
       /\ mark_as_downloaded(mark_as_downloaded(tracker, batch_object), batch_object)
            = mark_as_downloaded(tracker, batch_object)

\* C35 witness: the tracker holds a submitted and a finished batch, each with
\* a finished request.
C35_Witness ==
  /\ \E id \in tracker.submitted_batch_ids : FinishedRequestsOf({id}) > 0
  /\ \E id \in tracker.finished_batch_ids : FinishedRequestsOf({id}) > 0

\* The resume scan of the run is done and the run has not ended.
PastResumeScan == pc \in {"submit", "poll", "check_batch_status", "download", "sleep"}

\* C36: once the resume scan is done, during and after the submission phase,
\* n_total_batches is the number of request files of the manager, which is
\* the number of unsubmitted files plus that of the tracked batches.
C36_TotalBatchesIsNumberOfRequestFiles ==
  PastResumeScan =>
    /\ tracker.n_total_batches = Cardinality(request_files)
    /\ tracker.n_total_batches =
         Cardinality(tracker.unsubmitted_request_files) + Cardinality(Tracked)

\* The submission phase of the run has completed and the run has not ended.
SubmissionCompleted == pc \in {"poll", "check_batch_status", "download", "sleep"}

RECURSIVE RequestLinesOf(_)
\* The number of request lines of the request files files.
RequestLinesOf(files) ==
  IF files = {} THEN 0
  ELSE LET f == CHOOSE g \in files : TRUE
       IN requests[f].n_requests + RequestLinesOf(files \ {f})

\* C37: after the submission phase n_total_requests is the number of request
\* lines of the request files that have left unsubmitted_request_files.
C37_TotalRequestsIsNumberOfRequestLines ==
  SubmissionCompleted =>
    tracker.n_total_requests =
      RequestLinesOf(request_files \ tracker.unsubmitted_request_files)

\* What the journals hold is written by whole records: every record is
\* followed at once by its own newline, and every newline follows its record.
RecordAtomic(text) ==
  \A i \in 1..Len(text) :
    /\ text[i].piece = "newline" =>
         i > 1 /\ text[i - 1] = [id |-> text[i].id, piece |-> "record"]
    /\ (text[i].piece = "record" /\ i < Len(text)) =>
         text[i + 1] = [id |-> text[i].id, piece |-> "newline"]

IsPrefix(s, t) == Len(s) <= Len(t) /\ SubSeq(t, 1, Len(s)) = s

\* C38: whenever the event loop executes no task, both journals consist of
\* whole lines, each record followed by its own newline, whatever the order
\* in which the submit and the download tasks run; a step only appends to a
\* journal, except the rename of the submitted journal by cancel_batches;
\* the downloaded journal is only ever appended to.
C38_JournalsAppendOnlyAndRecordAtomic ==
  /\ [](/\ RecordAtomic(journal_text.submitted)
        /\ RecordAtomic(journal_text.downloaded)
        /\ running = NoTask =>
             \A j \in {"submitted", "downloaded"} :
               journal_text[j] # <<>> =>
                 journal_text[j][Len(journal_text[j])].piece = "newline")
  /\ [][/\ IsPrefix(journal_text.downloaded, journal_text'.downloaded)
        /\ \/ IsPrefix(journal_text.submitted, journal_text'.submitted)
           \/ /\ statement[CancelTask] = "gather"
              /\ statement'[CancelTask] = "os.rename"
              /\ journal_text'.submitted = <<>>
              /\ journal_text'.cancelled = journal_text.submitted]_vars

\* C38 witness: the two submit tasks and the two download tasks have each
\* appended a line, and cancel_batches has renamed the submitted journal.
C38_Witness ==
  /\ statement[CancelTask] = "os.rename"
  /\ Len(journal_text.cancelled) = 4
  /\ Len(journal_text.downloaded) = 4

\* C39: for the request files requests_<suffix> of a working directory,
\* request_file_to_response_file returns <working_dir>/responses_<suffix>, the
\* suffix being all that follows the first underscore of the basename;
\* response_file_to_request_file of that path returns the path of the request
\* file, and request_file_to_response_file of this again the response file;
\* two distinct request files have distinct response files.
C39_PathConversionsAreInverse ==
  /\ \A i \in 1..2 :
       /\ paths.response_file[i] # <<>> =>
            paths.response_file[i] =
              paths.working_dir
                \o <<"/", "r", "e", "s", "p", "o", "n", "s", "e", "s", "_">>
                \o paths.suffix[i]
       /\ paths.round_trip[i] # <<>> =>
            /\ paths.round_trip[i] = paths.request_file[i]
            /\ request_file_to_response_file_path(paths.round_trip[i],
                                                  paths.working_dir)
                 = paths.response_file[i]
  /\ (/\ paths.response_file[1] # <<>> /\ paths.response_file[2] # <<>>
      /\ paths.request_file[1] # paths.request_file[2]) =>
       paths.response_file[1] # paths.response_file[2]

\* C39 witness: two request files whose suffixes differ only after a second
\* underscore, in a working directory with an underscore in its name, were
\* both converted and converted back.
C39_Witness ==
  /\ paths.working_dir = <<"w", "_", "d">>
  /\ paths.suffix = <<<<"0", "_", "0">>, <<"0", "_", ".">>>>
  /\ paths.round_trip[1] = paths.request_file[1]
  /\ paths.round_trip[2] = paths.request_file[2]

====
